---- MODULE Spec2Model ----
(***************************************************************************)
(* Model of the C-string utilities of blenlib (intern/string.c).           *)
(*                                                                         *)
(* A byte is its ASCII code.  A C string is the sequence of its non-zero   *)
(* bytes; in memory it is followed by its terminator and then by bytes     *)
(* that do not belong to it (env.tail), and preceded by a byte that does   *)
(* not belong to it either (env.before).  A destination buffer is the      *)
(* function from the indexes the call has written to the bytes written.    *)
(* Every call is one step: Init draws the function and its arguments, the  *)
(* action of the function computes its result into ret.                    *)
(***************************************************************************)
EXTENDS Integers, Sequences, FiniteSets, TLC

VARIABLES op, pc, s1, s2, s3, n1, ch, env, ret

vars == <<op, pc, s1, s2, s3, n1, ch, env, ret>>

(* ------------------------------ bounds --------------------------------- *)

\* longest source string of the copy / escape calls
MaxLen == 3
\* largest destination capacity of the copy / escape calls
MaxCap == 4
\* longest prefix of the quoted-substring calls
MaxPrefix == 2
\* longest string of the natural-compare calls on pairs
NatLen == 3
\* longest string of the natural-compare calls on triples
OrdLen == 2
\* width of size_t in the model: arithmetic on size_t is modulo 2^SizeBits
SizeBits == 16

\* longest haystack and longest needle of the word-prefix calls
WordHayLen == 3
WordNeedleLen == 2

\* longest string of the pad-insensitive compare calls
PadLen == 3

\* format_int_grouped is called on every int of magnitude up to this, and
\* on the values of GroupedSamples
GroupedRange == 1100

\* format_byte_unit is called on every byte count of magnitude up to this,
\* and on the values of ByteSamples
ByteRange == 1600

\* longest string and longest delimiter list of the partition calls
PartLen == 3
PartDelims == 2

\* longest string, largest len and largest words_max of the split calls
SplitLen == 4
SplitMaxLen == 5
SplitWordsMax == 3

\* longest string and longest substring of the replace calls
ReplLen == 4
ReplSubLen == 2

\* longest formatted text and largest capacity of the vsnprintf calls
FmtLen == 4
FmtCap == 5

\* longest string of the find-quote calls
FindQuoteLen == 5

\* longest source of the unescape calls
UnescLen == 4

\* longest string of the natural-compare calls on '.' and ' '
NatDotLen == 3

\* longest string of the natural-compare calls on several digit runs
NatTieLen == 4

\* format_uint64_grouped is called on every value up to this, and on the
\* values of Uint64Samples
Uint64Range == 1100

SizeMod == 2 ^ SizeBits

(* ------------------------------- bytes --------------------------------- *)

NUL == 0
BEL == 7
BS == 8
TAB == 9
LF == 10
FF == 12
CR == 13
QUOTE == 34
STAR == 42
DOT == 46
BSLASH == 92

\* ctype.h, C locale, on ASCII bytes
tolower(c) == IF c >= 65 /\ c <= 90 THEN c + 32 ELSE c
isdigit(c) == c >= 48 /\ c <= 57

Min(a, b) == IF a < b THEN a ELSE b
Max(a, b) == IF a > b THEN a ELSE b
Sign(x) == IF x < 0 THEN -1 ELSE IF x > 0 THEN 1 ELSE 0

\* all strings over the bytes B of length at most n
StringsUpTo(B, n) == UNION {[1..k -> B] : k \in 0..n}

\* the string s from its 0-based index i on
Drop(s, i) == IF i >= Len(s) THEN <<>> ELSE SubSeq(s, i + 1, Len(s))
\* the first n bytes of s
Take(s, n) == SubSeq(s, 1, Min(n, Len(s)))

(* ------------------------------ memory --------------------------------- *)

\* size_t subtraction and addition
SubSz(a, b) == (a - b + SizeMod) % SizeMod
AddSz(a, b) == (a + b) % SizeMod

\* The byte at 0-based index i of the memory that holds the C string s.
Rd(s, e, i) ==
  IF i < 0 THEN e.before
  ELSE IF i < Len(s) THEN s[i + 1]
  ELSE IF i = Len(s) THEN NUL
  ELSE IF i - Len(s) <= Len(e.tail) THEN e.tail[i - Len(s)]
  ELSE NUL

\* number of bytes of the modelled memory that holds s, from index 0
MemSize(s, e) == Len(s) + 1 + Len(e.tail) + 1

NoBuf == [k \in {} |-> NUL]

\* dst[i] = b
Write(d, i, b) == [k \in (DOMAIN d) \cup {i} |-> IF k = i THEN b ELSE d[k]]

\* the byte dst[i] as the call sees it: what it wrote, else what was there
RdDst(d, e, i) == IF i \in DOMAIN d THEN d[i] ELSE e.dbefore

RECURSIVE CStrFrom(_, _)
CStrFrom(d, i) ==
  IF i \notin DOMAIN d \/ d[i] = NUL THEN <<>> ELSE <<d[i]>> \o CStrFrom(d, i + 1)

\* the C string held by dst, read from dst[0] to the first terminator
CStr(d) == CStrFrom(d, 0)

\* dst holds a terminator at index i and no terminator before it
TerminatedAt(d, i) ==
  /\ i \in DOMAIN d
  /\ d[i] = NUL
  /\ \A k \in 0..(i - 1) : k \in DOMAIN d /\ d[k] # NUL

RECURSIVE memcpy(_, _, _, _, _, _)
\* memcpy(&dst[at], &src[from], n), the bytes of src read through Rd
memcpy(d, at, s, e, from, n) ==
  IF n = 0 THEN d
  ELSE memcpy(Write(d, at, Rd(s, e, from)), at + 1, s, e, from + 1, n - 1)

(* ------------------------------ strnlen -------------------------------- *)

RECURSIVE strnlen_loop(_, _, _, _)
strnlen_loop(s, e, maxlen, len) ==
  IF len < maxlen /\ Rd(s, e, len) # NUL
  THEN strnlen_loop(s, e, maxlen, len + 1)
  ELSE len

BLI_strnlen(s, e, maxlen) == strnlen_loop(s, e, maxlen, 0)

(* ------------------------------ strncpy -------------------------------- *)

strncpy_srclen_off(src, e, maxncpy) == BLI_strnlen(src, e, maxncpy)

strncpy_srclen(src, e, maxncpy) == BLI_strnlen(src, e, SubSz(maxncpy, 1))

BLI_strncpy(src, e, maxncpy) ==
  LET srclen == strncpy_srclen(src, e, maxncpy)
      d1 == memcpy(NoBuf, 0, src, e, 0, srclen)
  IN [dst |-> Write(d1, srclen, NUL), srclen |-> srclen]

(* ----------------------------- ensure_pad ------------------------------ *)

\* memcpy of n bytes where n may exceed the memory the model holds: the
\* copy runs to the end of that memory and the call faults there.
memcpy_checked(d, at, s, e, n) ==
  IF n > MemSize(s, e)
  THEN [dst |-> memcpy(d, at, s, e, 0, MemSize(s, e)), fault |-> TRUE]
  ELSE [dst |-> memcpy(d, at, s, e, 0, n), fault |-> FALSE]

\* no byte of the copy is given up
ensure_pad_shorten_never(last, pad, srclen, maxncpy) == FALSE

\* the test that gives up one byte of the copy for the trailing pad
ensure_pad_shorten(last, pad, srclen, maxncpy) == last # pad /\ srclen = maxncpy

\* wrapped: a size_t counter was decremented at zero
\* rdmin: the lowest index of src read
BLI_strncpy_ensure_pad(src, e, pad, maxncpy0) ==
  IF Rd(src, e, 0) = NUL
  THEN [dst |-> Write(NoBuf, 0, NUL), wrapped |-> FALSE, rdmin |-> 0, fault |-> FALSE]
  ELSE
    LET lead == Rd(src, e, 0) # pad
        d1 == IF lead THEN Write(NoBuf, 0, pad) ELSE NoBuf
        idx1 == IF lead THEN 1 ELSE 0
        m1 == IF lead THEN SubSz(maxncpy0, 1) ELSE maxncpy0
        m2 == SubSz(m1, 1)
        len0 == BLI_strnlen(src, e, m2)
        last == Rd(src, e, len0 - 1)
        shorten == ensure_pad_shorten(last, pad, len0, m2)
        srclen == IF shorten THEN SubSz(len0, 1) ELSE len0
        cp == memcpy_checked(d1, idx1, src, e, srclen)
        idx2 == AddSz(idx1, srclen)
        trail == RdDst(cp.dst, e, idx2 - 1) # pad
        d3 == IF trail THEN Write(cp.dst, idx2, pad) ELSE cp.dst
        idx3 == IF trail THEN idx2 + 1 ELSE idx2
        wrapped == (lead /\ maxncpy0 = 0) \/ m1 = 0 \/ (shorten /\ len0 = 0)
    IN [dst |-> IF cp.fault THEN cp.dst ELSE Write(d3, idx3, NUL),
        wrapped |-> wrapped,
        rdmin |-> Min(0, len0 - 1),
        fault |-> cp.fault]

(* ------------------------------- escape -------------------------------- *)

\* the second byte of the escape pair of c, or NUL when c is not escaped
EscapeCode(c) ==
  CASE c = BSLASH -> BSLASH
    [] c = QUOTE -> QUOTE
    [] c = TAB -> 116
    [] c = LF -> 110
    [] c = CR -> 114
    [] c = BEL -> 97
    [] c = BS -> 98
    [] c = FF -> 102
    [] OTHER -> NUL

\* the condition on len of the for loop
escape_cond(len, dst_maxncpy) == len < dst_maxncpy

\* the backslash of the pair is written before the loop is left
escape_no_room_half(d, len, i) ==
  [dst |-> Write(Write(d, len, BSLASH), len + 1, NUL), len |-> len + 1, used |-> i]

\* the break of the loop when a pair does not fit: nothing of the pair is
\* written, dst is terminated where the pair would start
escape_no_room(d, len, i) ==
  [dst |-> Write(d, len, NUL), len |-> len, used |-> i]

RECURSIVE escape_loop(_, _, _, _, _, _)
\* i is the offset of src, len the offset of dst
escape_loop(d, src, e, dst_maxncpy, i, len) ==
  IF escape_cond(len, dst_maxncpy) /\ Rd(src, e, i) # NUL
  THEN LET c == Rd(src, e, i)
           code == EscapeCode(c)
       IN IF code # NUL
          THEN IF len + 1 >= dst_maxncpy
               THEN escape_no_room(d, len, i)
               ELSE escape_loop(Write(Write(d, len, BSLASH), len + 1, code),
                                src, e, dst_maxncpy, i + 1, len + 2)
          ELSE escape_loop(Write(d, len, c), src, e, dst_maxncpy, i + 1, len + 1)
  ELSE [dst |-> Write(d, len, NUL), len |-> len, used |-> i]

BLI_str_escape(src, e, dst_maxncpy) == escape_loop(NoBuf, src, e, dst_maxncpy, 0, 0)

(* ------------------------------ unescape ------------------------------- *)

\* the pair of the tab is not known
UnescapeCode_no_tab(c_next) ==
  CASE c_next = QUOTE -> QUOTE
    [] c_next = BSLASH -> BSLASH
    [] c_next = 110 -> LF
    [] c_next = 114 -> CR
    [] c_next = 97 -> BEL
    [] c_next = 98 -> BS
    [] c_next = 102 -> FF
    [] OTHER -> NUL

\* the byte an escape pair with second byte c_next decodes to, or NUL
UnescapeCode(c_next) ==
  CASE c_next = QUOTE -> QUOTE
    [] c_next = BSLASH -> BSLASH
    [] c_next = 116 -> TAB
    [] c_next = 110 -> LF
    [] c_next = 114 -> CR
    [] c_next = 97 -> BEL
    [] c_next = 98 -> BS
    [] c_next = 102 -> FF
    [] OTHER -> NUL

\* a pair is decoded without its backslash being dropped
UnescapeStep_keep(c, c_next) ==
  IF c = BSLASH /\ UnescapeCode(c_next) # NUL
  THEN [c |-> c, adv |-> 1]
  ELSE [c |-> c, adv |-> 1]

\* one iteration of the loop body: the byte written and the source bytes used
UnescapeStep(c, c_next) ==
  IF c = BSLASH /\ UnescapeCode(c_next) # NUL
  THEN [c |-> UnescapeCode(c_next), adv |-> 2]
  ELSE [c |-> c, adv |-> 1]

RECURSIVE unescape_loop(_, _, _, _, _, _, _, _)
\* src is &s[off]; i counts the source bytes used; rdmax is the highest
\* index of s read so far (-1: none)
unescape_loop(d, s, e, off, src_maxncpy, i, len, rdmax) ==
  IF i < src_maxncpy /\ Rd(s, e, off + i) # NUL
  THEN LET c == Rd(s, e, off + i)
           st == UnescapeStep(c, Rd(s, e, off + i + 1))
           rd == IF c = BSLASH THEN off + i + 1 ELSE off + i
       IN unescape_loop(Write(d, len, st.c), s, e, off, src_maxncpy,
                        i + st.adv, len + 1, Max(rdmax, rd))
  ELSE [dst |-> Write(d, len, NUL), len |-> len, used |-> i,
        rdmax |-> IF i < src_maxncpy THEN Max(rdmax, off + i) ELSE rdmax]

BLI_str_unescape(s, e, off, src_maxncpy) ==
  unescape_loop(NoBuf, s, e, off, src_maxncpy, 0, 0, -1)

(* --------------------------- quoted substring --------------------------- *)

\* a backslash escapes the next byte also when it is itself escaped
find_quote_escape_sticky(escape, c) == c = BSLASH

\* the new value of the escape flag after the byte c
find_quote_escape(escape, c) == (escape = FALSE) /\ (c = BSLASH)

RECURSIVE find_quote_loop(_, _, _, _)
\* the index at which the scan stops: an un-escaped quote or a terminator
find_quote_loop(s, e, i, escape) ==
  LET c == Rd(s, e, i)
  IN IF c # NUL /\ (c # QUOTE \/ escape)
     THEN find_quote_loop(s, e, i + 1, find_quote_escape(escape, c))
     ELSE i

\* BLI_str_escape_find_quote(&s[from]): pos is the index of the quote in s,
\* or -1 for NULL; rdmax is the highest index of s read
BLI_str_escape_find_quote(s, e, from) ==
  LET stop == find_quote_loop(s, e, from, FALSE)
  IN [pos |-> IF Rd(s, e, stop) = QUOTE THEN stop ELSE -1, rdmax |-> stop]

\* strstr(s, find): the index of the first occurrence of find in s, or -1
strstr(s, find) ==
  LET hits == {i \in 0..(Len(s) - Len(find)) : SubSeq(s, i + 1, i + Len(find)) = find}
  IN IF hits = {} THEN -1 ELSE CHOOSE i \in hits : \A j \in hits : i <= j

\* the index after the prefix at which the quoted text starts
quoted_start_noquote(at, prefix_len) == at + prefix_len

quoted_start(at, prefix_len) == at + prefix_len + 1

\* found: a string is returned (else NULL); rdmax: highest index of str read
BLI_str_quoted_substrN(str, e, prefix) ==
  LET at == strstr(str, prefix)
  IN IF at = -1
     THEN [found |-> FALSE, str |-> <<>>, rdmax |-> Len(str)]
     ELSE
       LET start_match == quoted_start(at, Len(prefix))
           q == BLI_str_escape_find_quote(str, e, start_match)
       IN IF q.pos = -1
          THEN [found |-> FALSE, str |-> <<>>, rdmax |-> Max(Len(str), q.rdmax)]
          ELSE
            LET escaped_len == q.pos - start_match
                u == BLI_str_unescape(str, e, start_match, escaped_len)
            IN [found |-> TRUE, str |-> CStr(u.dst),
                rdmax |-> Max(Len(str), q.rdmax)]

(* --------------------------- natural compare --------------------------- *)

RECURSIVE strncmp_loop(_, _, _, _, _, _)
strncmp_loop(a, i, b, j, e, n) ==
  IF n = 0 THEN 0
  ELSE IF Rd(a, e, i) # Rd(b, e, j) THEN Rd(a, e, i) - Rd(b, e, j)
  ELSE IF Rd(a, e, i) = NUL THEN 0
  ELSE strncmp_loop(a, i + 1, b, j + 1, e, n - 1)

\* strncmp(&a[i], &b[j], n): the difference of the first differing bytes
strncmp(a, i, b, j, e, n) == strncmp_loop(a, i, b, j, e, n)

\* strcmp(a, b)
strcmp(a, b, e) == strncmp_loop(a, 0, b, 0, e, Max(Len(a), Len(b)) + 1)

\* leading zeros are not skipped
count_zeros_none(s, e, i) == 0

RECURSIVE count_zeros(_, _, _)
\* the number of '0' bytes from &s[i] on ("count and skip leading zeros")
count_zeros(s, e, i) == IF Rd(s, e, i) = 48 THEN 1 + count_zeros(s, e, i + 1) ELSE 0

RECURSIVE count_digits(_, _, _, _, _, _)
\* "find number of consecutive digits": 1 or -1 when one run is longer,
\* else the common number of digits
count_digits(a, p1, b, p2, e, numdigit) ==
  IF isdigit(Rd(a, e, p1 + numdigit)) /\ isdigit(Rd(b, e, p2 + numdigit))
  THEN count_digits(a, p1, b, p2, e, numdigit + 1)
  ELSE IF isdigit(Rd(a, e, p1 + numdigit)) THEN [ret |-> 1, numdigit |-> numdigit]
  ELSE IF isdigit(Rd(b, e, p2 + numdigit)) THEN [ret |-> -1, numdigit |-> numdigit]
  ELSE [ret |-> 0, numdigit |-> numdigit]

\* every pair of digit runs with different zero counts sets the tie-breaker
zeros_tiebreak_last(tiebreaker, numzero1, numzero2) ==
  IF numzero1 > numzero2 THEN 1
  ELSE IF numzero1 < numzero2 THEN -1
  ELSE tiebreaker

\* the string with more leading zeros is ordered first
zeros_tiebreak_more_first(tiebreaker, numzero1, numzero2) ==
  IF tiebreaker = 0
  THEN IF numzero1 > numzero2 THEN -1
       ELSE IF numzero1 < numzero2 THEN 1
       ELSE tiebreaker
  ELSE tiebreaker

\* "use number of leading zeros as tie breaker if still equal"
zeros_tiebreak(tiebreaker, numzero1, numzero2) ==
  IF tiebreaker = 0
  THEN IF numzero1 > numzero2 THEN 1
       ELSE IF numzero1 < numzero2 THEN -1
       ELSE tiebreaker
  ELSE tiebreaker

\* left_number_strcmp(&a[i], &b[j], &tiebreaker)
left_number_strcmp(a, i, b, j, e, tiebreaker) ==
  LET numzero1 == count_zeros(a, e, i)
      numzero2 == count_zeros(b, e, j)
      p1 == i + numzero1
      p2 == j + numzero2
      cnt == count_digits(a, p1, b, p2, e, 0)
      compare == IF cnt.numdigit > 0 THEN strncmp(a, p1, b, p2, e, cnt.numdigit) ELSE 0
  IN IF cnt.ret # 0 THEN [ret |-> cnt.ret, tiebreaker |-> tiebreaker]
     ELSE IF compare # 0 THEN [ret |-> compare, tiebreaker |-> tiebreaker]
     ELSE [ret |-> 0, tiebreaker |-> zeros_tiebreak(tiebreaker, numzero1, numzero2)]

RECURSIVE skip_digits(_, _, _)
\* while (isdigit(s[d])) d++
skip_digits(s, e, d) == IF isdigit(Rd(s, e, d)) THEN skip_digits(s, e, d + 1) ELSE d

\* the result once the walk has stopped at the end of a string
natural_end(a, b, e, tiebreaker) ==
  IF tiebreaker # 0 THEN tiebreaker ELSE strcmp(a, b, e)

\* the bytes are ordered by their code alone
natural_char_compare_plain(c1, c2) == IF c1 < c2 THEN -1 ELSE 1

\* the result for two case-folded bytes c1 # c2: '.' comes first
natural_char_compare(c1, c2) ==
  IF c1 = DOT THEN -1
  ELSE IF c2 = DOT THEN 1
  ELSE IF c1 < c2 THEN -1 ELSE 1

RECURSIVE natural_loop(_, _, _, _, _, _)
\* exit tells where the result was decided: "num" in a digit run, "char" at
\* a differing byte, "end" at the end of a string; d1, d2 are the positions
\* of the walk at that point
natural_loop(a, b, e, d1, d2, tiebreaker) ==
  LET both == isdigit(Rd(a, e, d1)) /\ isdigit(Rd(b, e, d2))
      num == IF both THEN left_number_strcmp(a, d1, b, d2, e, tiebreaker)
             ELSE [ret |-> 0, tiebreaker |-> tiebreaker]
      e1 == IF both THEN skip_digits(a, e, d1 + 1) ELSE d1
      e2 == IF both THEN skip_digits(b, e, d2 + 1) ELSE d2
      c1 == tolower(Rd(a, e, e1))
      c2 == tolower(Rd(b, e, e2))
  IN IF num.ret # 0
     THEN [ret |-> num.ret, exit |-> "num", d1 |-> d1, d2 |-> d2, tiebreaker |-> tiebreaker]
     ELSE IF Rd(a, e, e1) = NUL \/ Rd(b, e, e2) = NUL
     THEN [ret |-> natural_end(a, b, e, num.tiebreaker), exit |-> "end",
           d1 |-> e1, d2 |-> e2, tiebreaker |-> num.tiebreaker]
     ELSE IF c1 = c2 THEN natural_loop(a, b, e, e1 + 1, e2 + 1, num.tiebreaker)
     ELSE [ret |-> natural_char_compare(c1, c2),
           exit |-> "char", d1 |-> e1, d2 |-> e2, tiebreaker |-> num.tiebreaker]

BLI_strcasecmp_natural(a, b, e) == natural_loop(a, b, e, 0, 0, 0)

(* ----------------------------- word prefix ------------------------------ *)

\* ctype.h, C locale
ispunct(c) ==
  \/ (c >= 33 /\ c <= 47)
  \/ (c >= 58 /\ c <= 64)
  \/ (c >= 91 /\ c <= 96)
  \/ (c >= 123 /\ c <= 126)

RECURSIVE strncasecmp_loop(_, _, _, _, _, _, _)
strncasecmp_loop(a, i, b, j, e, len, k) ==
  IF k < len
  THEN LET c1 == tolower(Rd(a, e, i + k))
           c2 == tolower(Rd(b, e, j + k))
       IN IF c1 < c2 THEN -1
          ELSE IF c1 > c2 THEN 1
          ELSE IF c1 = NUL THEN 0
          ELSE strncasecmp_loop(a, i, b, j, e, len, k + 1)
  ELSE 0

\* BLI_strncasecmp(&a[i], &b[j], len)
BLI_strncasecmp(a, i, b, j, e, len) == strncasecmp_loop(a, i, b, j, e, len, 0)

RECURSIVE strncasestr_scan(_, _, _, _, _)
\* the two nested do-while loops: the index of the first candidate from i
\* on whose first byte and following len - 1 bytes match, or -1
strncasestr_scan(s, e, find, len, i) ==
  IF Rd(s, e, i) = NUL THEN -1
  ELSE IF tolower(Rd(s, e, i)) = tolower(Rd(find, e, 0))
          /\ (len > 1 => BLI_strncasecmp(s, i + 1, find, 1, e, len - 1) = 0)
  THEN i
  ELSE strncasestr_scan(s, e, find, len, i + 1)

\* BLI_strncasestr(&s[from], find, len): an index of s, or -1 for NULL
BLI_strncasestr(s, e, from, find, len) ==
  IF Rd(find, e, 0) # NUL THEN strncasestr_scan(s, e, find, len, from) ELSE from

RECURSIVE BLI_string_has_word_prefix(_, _, _, _, _)
\* BLI_string_has_word_prefix(&s[haystack], needle, needle_len)
BLI_string_has_word_prefix(s, e, haystack, needle, needle_len) ==
  LET match == BLI_strncasestr(s, e, haystack, needle, needle_len)
  IN IF match # -1
     THEN IF match = haystack \/ Rd(s, e, match - 1) = 32 \/ ispunct(Rd(s, e, match - 1))
          THEN TRUE
          ELSE BLI_string_has_word_prefix(s, e, match + 1, needle, needle_len)
     ELSE FALSE

(* ------------------------------ endswith ------------------------------- *)

RECURSIVE endswith_loop(_, _, _, _, _)
\* while (*iter) { if (*iter++ != *end++) return false; } return true;
endswith_loop(str, end, e, iter, k) ==
  IF Rd(str, e, iter) # NUL
  THEN IF Rd(str, e, iter) # Rd(end, e, k) THEN FALSE
       ELSE endswith_loop(str, end, e, iter + 1, k + 1)
  ELSE TRUE

BLI_strn_endswith(str, end, e, slength) ==
  LET elength == Len(end)
  IN IF elength < slength
     THEN endswith_loop(str, end, e, slength - elength, 0)
     ELSE FALSE

BLI_str_endswith(str, end, e) == BLI_strn_endswith(str, end, e, Len(str))

(* -------------------------- compare ignoring pad ------------------------ *)

RECURSIVE pad_skip(_, _, _, _)
\* while (*str == pad) str++
pad_skip(s, e, i, pad) == IF Rd(s, e, i) = pad THEN pad_skip(s, e, i + 1, pad) ELSE i

RECURSIVE strlen_from(_, _, _)
\* strlen(&s[i])
strlen_from(s, e, i) == IF Rd(s, e, i) = NUL THEN 0 ELSE 1 + strlen_from(s, e, i + 1)

\* trailing pads are kept
pad_rtrim_none(s, e, from, len, pad) == len

RECURSIVE pad_rtrim(_, _, _, _, _)
\* while (len && (str[len - 1] == pad)) len--, str being &s[from]
pad_rtrim(s, e, from, len, pad) ==
  IF len # 0 /\ Rd(s, e, from + len - 1) = pad
  THEN pad_rtrim(s, e, from, len - 1, pad)
  ELSE len

BLI_strcmp_ignore_pad(a, b, e, pad) ==
  LET str1 == pad_skip(a, e, 0, pad)
      str2 == pad_skip(b, e, 0, pad)
      str1_len == pad_rtrim(a, e, str1, strlen_from(a, e, str1), pad)
      str2_len == pad_rtrim(b, e, str2, strlen_from(b, e, str2), pad)
  IN IF str1_len = str2_len THEN strncmp(a, str1, b, str2, e, str2_len)
     ELSE IF str1_len > str2_len
     THEN LET r == strncmp(a, str1, b, str2, e, str2_len)
          IN IF r = 0 THEN 1 ELSE r
     ELSE LET r == strncmp(a, str1, b, str2, e, str1_len)
          IN IF r = 0 THEN -1 ELSE r

(* --------------------------- grouped integers -------------------------- *)

COMMA == 44
MINUS == 45

RECURSIVE DecDigitsNeg(_)
\* the decimal digits of -n for n <= 0, most significant first ("" for 0);
\* computed on the negative side so that INT_MIN needs no negation
DecDigitsNeg(n) ==
  IF n = 0 THEN <<>>
  ELSE LET d == (10 - (n % 10)) % 10
       IN DecDigitsNeg((n + d) \div 10) \o <<48 + d>>

\* sprintf(src, "%d", num): the text written
sprintf_d(num) ==
  IF num = 0 THEN <<48>>
  ELSE IF num < 0 THEN <<MINUS>> \o DecDigitsNeg(num)
  ELSE DecDigitsNeg(-num)

\* the groups are counted from the left
grouped_commas_init_left(num_len) == 2

\* the initial value of commas in the for loop
grouped_commas_init(num_len) == 2 - (num_len % 3)

RECURSIVE grouped_loop(_, _, _, _, _, _)
\* for (...; *p_src; commas = (commas + 1) % 3)
grouped_loop(d, src, e, p_src, p_dst, commas) ==
  IF Rd(src, e, p_src) # NUL
  THEN LET d1 == Write(d, p_dst, Rd(src, e, p_src))
       IN IF commas = 1
          THEN grouped_loop(Write(d1, p_dst + 1, COMMA), src, e, p_src + 1, p_dst + 2,
                            (commas + 1) % 3)
          ELSE grouped_loop(d1, src, e, p_src + 1, p_dst + 1, (commas + 1) % 3)
  ELSE [dst |-> Write(d, p_dst - 1, NUL), len |-> p_dst - 1]

BLI_str_format_int_grouped_ex(src, e, num_len) ==
  IF Rd(src, e, 0) = MINUS
  THEN grouped_loop(Write(NoBuf, 0, MINUS), src, e, 1, 1, grouped_commas_init(num_len - 1))
  ELSE grouped_loop(NoBuf, src, e, 0, 0, grouped_commas_init(num_len))

BLI_str_format_int_grouped(num, e) ==
  LET src == sprintf_d(num)
  IN BLI_str_format_int_grouped_ex(src, e, Len(src))

(* ----------------------------- decimal numerals ------------------------- *)
(* A long long and a double exceed the integers of the model.  A byte count *)
(* is held as a sign and the numeral of its magnitude: the sequence of its  *)
(* decimal digits (values 0..9), most significant first.                    *)
(* CHOOSE res \in {F(x) : x \in {e}} : TRUE is F(e), e being evaluated once. *)

\* the numeral without leading zeros
NumNorm(D) ==
  LET nz == {i \in 1..Len(D) : D[i] # 0}
  IN IF nz = {} THEN <<0>>
     ELSE SubSeq(D, CHOOSE i \in nz : \A j \in nz : i <= j, Len(D))

RECURSIVE NumInt(_, _, _)
\* the value of the first n digits of a short numeral
NumInt(D, n, acc) == IF n = 0 THEN acc ELSE 10 * NumInt(D, n - 1, acc) + D[n]

RECURSIVE NumDivStep(_, _, _)
\* the long division of the first n digits of D by m: quotient digits and
\* remainder
NumDivStep(D, m, n) ==
  IF n = 0 THEN [q |-> <<>>, r |-> 0]
  ELSE CHOOSE res \in {[q |-> p.q \o <<(10 * p.r + D[n]) \div m>>,
                        r |-> (10 * p.r + D[n]) % m] : p \in {NumDivStep(D, m, n - 1)}} : TRUE

\* quotient and remainder of the numeral D by the small integer m
NumDiv(D, m) ==
  CHOOSE res \in {[q |-> NumNorm(x.q), r |-> x.r] : x \in {NumDivStep(D, m, Len(D))}} : TRUE

RECURSIVE NumMulStep(_, _, _, _)
\* the digits of D[1..n] * m + carry
NumMulStep(D, m, n, carry) ==
  IF n = 0 THEN (IF carry = 0 THEN <<>> ELSE NumMulStep(D, m, 0, carry \div 10) \o <<carry % 10>>)
  ELSE CHOOSE res \in {NumMulStep(D, m, n - 1, x \div 10) \o <<x % 10>> :
                       x \in {D[n] * m + carry}} : TRUE

\* the numeral D times the small integer m
NumMul(D, m) == NumNorm(NumMulStep(D, m, Len(D), 0))

\* the numeral D plus the small integer m
NumAdd(D, m) == NumNorm(NumMulStep(D, 1, Len(D), m))

\* the numeral D minus one, D > 0
NumDec(D) ==
  LET nz == {i \in 1..Len(D) : D[i] # 0}
      k == CHOOSE i \in nz : \A j \in nz : i >= j
  IN NumNorm([i \in 1..Len(D) |-> IF i < k THEN D[i] ELSE IF i = k THEN D[i] - 1 ELSE 9])

RECURSIVE NumPow(_, _)
NumPow(m, k) ==
  IF k = 0 THEN <<1>>
  ELSE CHOOSE res \in {NumMul(p, m) : p \in {NumPow(m, k - 1)}} : TRUE

\* D >= m for a small integer m
NumGe(D, m) ==
  \E N \in {NumNorm(D)} : Len(N) > 9 \/ NumInt(N, Len(N), 0) >= m

RECURSIVE NumDivPow(_, _, _, _)
\* the floor of D / m^k, and whether the division left a remainder
NumDivPow(D, m, k, inexact) ==
  IF k = 0 THEN [q |-> NumNorm(D), inexact |-> inexact]
  ELSE CHOOSE res \in {NumDivPow(x.q, m, k - 1, inexact \/ x.r # 0) :
                       x \in {NumDiv(D, m)}} : TRUE

\* the text of a numeral
NumText(D) == [i \in 1..Len(D) |-> 48 + D[i]]

\* the numeral of an int n >= 0
NumOf(n) == LET t == sprintf_d(n) IN [i \in 1..Len(t) |-> t[i] - 48]

(* ------------------------------ byte units ----------------------------- *)

SPACE == 32

\* number of digits kept beyond the last printed one to round the quotient
GuardDigits == 7

\* the double bytes_converted is the exact quotient magnitude / base^order
\* when the divisions are by a power of two and the magnitude is below
\* 10^15 < 2^53, and when at most one division by 1000 was made; else it
\* differs from the exact quotient by a relative error far below
\* 10^-GuardDigits
ExactDouble(mag, base, order) ==
  \/ order = 0
  \/ (base = 1024 /\ Len(mag) <= 15)
  \/ (base = 1000 /\ order = 1 /\ Len(mag) <= 15)

\* printf("%.*f", decimals, v) for |v| = mag / base^order: the text.
\* A value that is exactly half way between two printed values is rounded
\* to even or away from zero, as the C library chooses (up tells which); a
\* value closer to half way than the error of the double is rounded either
\* way.
printf_f(neg, mag, base, order, decimals, up) ==
  CHOOSE text \in
    {LET q == [i \in 1..(decimals + GuardDigits + 1) |-> 0] \o x.q
         nq == Len(x.q) + decimals + GuardDigits + 1
         head == SubSeq(q, 1, nq - GuardDigits)
         g == NumInt(SubSeq(q, nq - GuardDigits + 1, nq), GuardDigits, 0)
         half == 5 * 10 ^ (GuardDigits - 1)
         exact == ExactDouble(mag, base, order)
         tie == g = half /\ ~x.inexact
         odd == q[nq - GuardDigits] % 2 = 1
         roundup ==
           IF exact
           THEN IF tie THEN (odd \/ up) ELSE g >= half
           ELSE IF g = half \/ g = half - 1 THEN up ELSE g >= half
         t0 == IF roundup THEN NumAdd(head, 1) ELSE NumNorm(head)
         t == [i \in 1..(decimals + 1 - Len(t0)) |-> 0] \o t0
         int == SubSeq(t, 1, Len(t) - decimals)
         frac == SubSeq(t, Len(t) - decimals + 1, Len(t))
     IN (IF neg THEN <<MINUS>> ELSE <<>>) \o NumText(int) \o
        (IF decimals > 0 THEN <<DOT>> \o NumText(frac) ELSE <<>>) :
     x \in {NumDivPow(mag \o [i \in 1..(decimals + GuardDigits) |-> 0],
                      base, order, FALSE)}} : TRUE

\* the number of bytes written is returned, not the length of the text
vsnprintf_written(text, maxncpy) ==
  LET n == Min(Len(text), maxncpy - 1)
  IN [dst |-> [i \in 0..n |-> IF i < n THEN text[i + 1] ELSE NUL], n |-> n]

\* vsnprintf(buffer, maxncpy, ...) for the formatted text: the bytes that fit
\* and a terminator are written, the length of the whole text is returned
vsnprintf(text, maxncpy) ==
  LET n == Min(Len(text), maxncpy - 1)
  IN [dst |-> [i \in 0..n |-> IF i < n THEN text[i + 1] ELSE NUL], n |-> Len(text)]

\* BLI_vsnprintf(buffer, maxncpy, format, arg), text being the formatted
\* text
BLI_vsnprintf(text, maxncpy) ==
  LET p == vsnprintf(text, maxncpy)
      n == p.n
  IN [dst |-> IF n # -1 /\ n < maxncpy THEN Write(p.dst, n, NUL)
              ELSE Write(p.dst, maxncpy - 1, NUL),
      n |-> n]

\* BLI_vsnprintf_rlen(buffer, maxncpy, format, arg), text being the
\* formatted text
BLI_vsnprintf_rlen(text, maxncpy) ==
  LET p == vsnprintf(text, maxncpy)
      n == IF p.n # -1 /\ p.n < maxncpy THEN p.n ELSE maxncpy - 1
  IN [dst |-> Write(p.dst, n, NUL), n |-> n]

\* the zero of the first decimal place is stripped too, with the point
rstrip_zero_stop_point(p, end_p) == end_p + 1 # p

\* the condition `end_p != p` of the strip loop
rstrip_zero_stop(p, end_p) == end_p # p

RECURSIVE rstrip_zero_loop(_, _, _, _, _, _)
\* while (end_p != p && *end_p == '0') { *end_p = pad; end_p--; totstrip++; }
rstrip_zero_loop(d, e, p, end_p, pad, totstrip) ==
  IF rstrip_zero_stop(p, end_p) /\ RdDst(d, e, end_p) = 48
  THEN rstrip_zero_loop(Write(d, end_p, pad), e, p, end_p - 1, pad, totstrip + 1)
  ELSE [dst |-> d, totstrip |-> totstrip]

\* BLI_str_rstrip_float_zero(str, pad) on the text held by the buffer d
BLI_str_rstrip_float_zero(d, e, pad) ==
  LET str == CStr(d)
      dots == {i \in 1..Len(str) : str[i] = DOT}
  IN IF dots = {} THEN [dst |-> d, totstrip |-> 0]
     ELSE LET p == CHOOSE i \in dots : \A j \in dots : i <= j
              end_p == p + (Len(str) - p - 1)
          IN IF end_p > p THEN rstrip_zero_loop(d, e, p, end_p, pad, 0)
             ELSE [dst |-> d, totstrip |-> 0]

units_base_10 == << <<66>>, <<75, 66>>, <<77, 66>>, <<71, 66>>, <<84, 66>>, <<80, 66>> >>
units_base_2 == << <<66>>, <<75, 105, 66>>, <<77, 105, 66>>, <<71, 105, 66>>,
                   <<84, 105, 66>>, <<80, 105, 66>> >>
tot_units == Len(units_base_2)

\* one decimal more than the code prints
byte_unit_decimals_more(order) == order

\* decimals = MAX2(order - 1, 0)
byte_unit_decimals(order) == Max(order - 1, 0)

\* the unit is changed one step too late
byte_unit_more_gt(mag, base, order) ==
  NumGe(NumDivPow(mag, base, order, FALSE).q, base + 1) /\ (order + 1) < tot_units

\* the condition of the while loop, bytes_converted being mag / base^order
byte_unit_more(mag, base, order) ==
  NumGe(NumDivPow(mag, base, order, FALSE).q, base) /\ (order + 1) < tot_units

RECURSIVE byte_unit_order(_, _, _)
byte_unit_order(mag, base, order) ==
  IF byte_unit_more(mag, base, order) THEN byte_unit_order(mag, base, order + 1) ELSE order

\* BLI_str_format_byte_unit(dst, bytes, base_10), bytes being -mag when neg
BLI_str_format_byte_unit(neg, mag, base_10, e, up) ==
  LET base == IF base_10 THEN 1000 ELSE 1024
      order == byte_unit_order(mag, base, 0)
      decimals == byte_unit_decimals(order)
      dst_len == 15
      text == printf_f(neg, mag, base, order, decimals, up)
      f == BLI_vsnprintf_rlen(text, dst_len)
      z == BLI_str_rstrip_float_zero(f.dst, e, NUL)
      len == f.n - z.totstrip
      d1 == Write(z.dst, len, SPACE)
      unit == IF base_10 THEN units_base_10[order + 1] ELSE units_base_2[order + 1]
      u == BLI_strncpy(unit, e, dst_len - (len + 1))
      d2 == [i \in (DOMAIN d1) \cup {len + 1 + k : k \in DOMAIN u.dst} |->
               IF i >= len + 1 /\ (i - len - 1) \in DOMAIN u.dst
               THEN u.dst[i - len - 1] ELSE d1[i]]
  IN [dst |-> d2, order |-> order, decimals |-> decimals, formatted |-> CStr(f.dst),
      totstrip |-> z.totstrip]

(* ------------------------------ partition ------------------------------ *)
(* Pointers into str are offsets from str; -1 is NULL, which compares below *)
(* every address.                                                           *)

\* strchr(s, c): the offset of the first c in s, or -1
strchr(s, c) ==
  LET hits == {i \in 0..Len(s) : (IF i < Len(s) THEN s[i + 1] ELSE NUL) = c}
  IN IF hits = {} THEN -1 ELSE CHOOSE i \in hits : \A j \in hits : i <= j

\* strrchr(s, c): the offset of the last c in s, or -1
strrchr(s, c) ==
  LET hits == {i \in 0..Len(s) : (IF i < Len(s) THEN s[i + 1] ELSE NUL) = c}
  IN IF hits = {} THEN -1 ELSE CHOOSE i \in hits : \A j \in hits : i >= j

RECURSIVE partition_scan_back(_, _, _, _)
\* for (tmp = end - 1; (tmp >= str) && (*tmp != *d); tmp--) {}
partition_scan_back(str, e, tmp, c) ==
  IF tmp >= 0 /\ Rd(str, e, tmp) # c THEN partition_scan_back(str, e, tmp - 1, c) ELSE tmp

\* the candidate tmp of one delimiter byte c
partition_tmp(str, e, end, c, from_right) ==
  IF end # -1
  THEN IF from_right
       THEN LET tmp == partition_scan_back(str, e, end - 1, c)
            IN IF tmp < 0 THEN -1 ELSE tmp
       ELSE LET tmp == strchr(str, c)
            IN IF tmp >= end THEN -1 ELSE tmp
  ELSE IF from_right THEN strrchr(str, c) ELSE strchr(str, c)

\* the candidate of the last delimiter byte always replaces *sep
partition_better_last(sep, tmp, from_right) == tmp # -1

\* tmp && (from_right ? (*sep < tmp) : (!*sep || *sep > tmp))
partition_better(sep, tmp, from_right) ==
  tmp # -1 /\ (IF from_right THEN sep < tmp ELSE (sep = -1 \/ sep > tmp))

RECURSIVE partition_loop(_, _, _, _, _, _, _)
\* for (d = delim; *d != '\0'; d++)
partition_loop(str, e, end, delim, d, sep, from_right) ==
  IF Rd(delim, e, d) # NUL
  THEN LET tmp == partition_tmp(str, e, end, Rd(delim, e, d), from_right)
       IN partition_loop(str, e, end, delim, d + 1,
                         IF partition_better(sep, tmp, from_right) THEN tmp ELSE sep,
                         from_right)
  ELSE sep

BLI_str_partition_ex(str, e, end, delim, from_right) ==
  LET sep == partition_loop(str, e, end, delim, 0, -1, from_right)
  IN IF sep # -1 THEN [sep |-> sep, suf |-> sep + 1, ret |-> sep]
     ELSE [sep |-> -1, suf |-> -1, ret |-> IF end # -1 THEN end ELSE Len(str)]

BLI_str_partition(str, e, delim) == BLI_str_partition_ex(str, e, -1, delim, FALSE)

BLI_str_rpartition(str, e, delim) == BLI_str_partition_ex(str, e, -1, delim, TRUE)

(* ------------------------------ split words ---------------------------- *)
(* r_words is the function from the cells <<n, 0>> and <<n, 1>> written to  *)
(* their values.                                                            *)

RECURSIVE split_skip(_, _, _, _, _)
\* for (i = 0; (i < len) && (str[i] != '\0'); i++) { if (str[i] != delim) break; }
split_skip(str, e, len, delim, i) ==
  IF i < len /\ Rd(str, e, i) # NUL /\ Rd(str, e, i) = delim
  THEN split_skip(str, e, len, delim, i + 1)
  ELSE i

\* the half of the length, without the word a string of odd length ends in
max_possible_word_count_half(str_len) == str_len \div 2

\* return (str_len / 2) + 1;
BLI_string_max_possible_word_count(str_len) == (str_len \div 2) + 1

\* one word more than words_max is looked for
split_room_le(n, words_max) == n <= words_max

\* the condition `n < words_max` of the second loop
split_room(n, words_max) == n < words_max

RECURSIVE split_loop(_, _, _, _, _, _, _, _, _)
\* for (; (i < len) && (str[i] != '\0') && (n < words_max); i++)
split_loop(str, e, len, delim, words_max, i, n, charsearch, r_words) ==
  IF i < len /\ Rd(str, e, i) # NUL /\ split_room(n, words_max)
  THEN IF Rd(str, e, i) # delim /\ charsearch
       THEN split_loop(str, e, len, delim, words_max, i + 1, n, FALSE,
                       Write(r_words, <<n, 0>>, i))
       ELSE IF Rd(str, e, i) = delim /\ ~charsearch
       THEN split_loop(str, e, len, delim, words_max, i + 1, n + 1, TRUE,
                       Write(r_words, <<n, 1>>, i - r_words[<<n, 0>>]))
       ELSE split_loop(str, e, len, delim, words_max, i + 1, n, charsearch, r_words)
  ELSE IF ~charsearch
  THEN [n |-> n + 1, r_words |-> Write(r_words, <<n, 1>>, i - r_words[<<n, 0>>])]
  ELSE [n |-> n, r_words |-> r_words]

BLI_string_find_split_words(str, e, len, delim, words_max) ==
  split_loop(str, e, len, delim, words_max, split_skip(str, e, len, delim, 0), 0, TRUE, NoBuf)

(* -------------------------------- replace ------------------------------ *)
(* The DynStr ds is the sequence of the bytes appended so far; str is the   *)
(* offset of the current position in the string s.                          *)

\* the scan resumes one byte after the start of the match
replace_advance_one(str, len_old) == str + 1

\* str += len_old
replace_advance(str, len_old) == str + len_old

RECURSIVE replace_loop(_, _, _, _, _, _)
\* while ((match = strstr(str, substr_old))) { ... }, then the result
replace_loop(s, substr_old, substr_new, str, ds, made) ==
  LET match == strstr(Drop(s, str), substr_old)
  IN IF match # -1
     THEN replace_loop(s, substr_old, substr_new,
                       replace_advance(str + match, Len(substr_old)),
                       ds \o SubSeq(s, str + 1, str + match) \o substr_new, TRUE)
     ELSE IF made THEN ds \o Drop(s, str)
     ELSE Drop(s, str)

BLI_str_replaceN(str, substr_old, substr_new) ==
  replace_loop(str, substr_old, substr_new, 0, <<>>, FALSE)

(* --------------------------- grouped uint64 ---------------------------- *)

\* BLI_str_format_uint64_grouped(dst, num), num being the value of the
\* numeral mag: sprintf writes its digits and a terminator into src
BLI_str_format_uint64_grouped(mag, e) ==
  LET src == NumText(mag)
      g == BLI_str_format_int_grouped_ex(src, e, Len(src))
  IN [dst |-> g.dst, len |-> g.len, src_used |-> Len(src) + 1]

(* ------------------------------ inputs --------------------------------- *)

\* bytes of the copy and escape calls
CopyBytes == {QUOTE, BSLASH, TAB, 116, STAR}

\* the eight escaped bytes, the letters of their escape pairs, a plain byte
EscBytes == {BSLASH, QUOTE, TAB, LF, CR, BEL, BS, FF, 116, 110, 114, 97, 98, 102, 120}

\* bytes of the quoted text
QuoteBytes == {QUOTE, BSLASH, TAB, 116, 112}

\* bytes of the prefix, and of the strings searched for it
PrefixBytes == {112, QUOTE, BSLASH}

\* bytes of the natural-compare calls: '0' '1' 'A' 'a' '.'
NatBytes == {48, 49, 65, 97, DOT}

\* bytes of the natural-compare calls on triples
OrdBytes == {48, 49, 65, 97, DOT}

img2 == <<105, 109, 103, 50>>
img10 == <<105, 109, 103, 49, 48>>
n007 == <<48, 48, 55>>
n07 == <<48, 55>>
n7 == <<55>>

\* the pairs the specification names
NatExamples == {<<img2, img10>>, <<img10, img2>>, <<n007, n07>>, <<n07, n7>>,
                <<n07, n007>>, <<n7, n07>>}

\* bytes of the word-prefix calls: 'a' 'A' 'x' ' ' ','
WordBytes == {97, 65, 120, 32, 44}

the_quick_fox == <<116, 104, 101, 32, 113, 117, 105, 99, 107, 44, 32, 102, 111, 120>>
thefox == <<116, 104, 101, 102, 111, 120>>
fox == <<102, 111, 120>>

\* bytes of the suffix, pad-compare, partition and replace calls: 'a' 'b'
AbBytes == {97, 98}

\* bytes of the pad-insensitive compare calls: '*' 'a' 'b'
PadBytes == {STAR, 97, 98}

star_world == <<42, 119, 111, 114, 108, 100>>
world_star == <<119, 111, 114, 108, 100, 42>>

INT_MAX == 2147483647
INT_MIN == -2147483647 - 1

\* ints on both sides of every change of the number of digits, and the
\* values the documentation names
GroupedSamples ==
  {INT_MAX, INT_MIN, 1234567, -1234567, 12345, -12345}
  \cup UNION {{10 ^ k, 10 ^ k - 1, -(10 ^ k), 1 - 10 ^ k} : k \in 3..9}

\* byte counts around every change of unit, one and a half of every unit,
\* values half way between two printed values, and the largest long long
ByteSamples ==
  UNION {{p, NumDec(p), NumDiv(NumMul(p, 3), 2).q, NumAdd(p, 1)} :
           p \in {NumPow(b, k) : b \in {1000, 1024}, k \in 1..6}}
  \cup {NumOf(1250000), NumOf(1150000), NumOf(1572864), NumOf(1234567890),
        <<9, 2, 2, 3, 3, 7, 2, 0, 3, 6, 8, 5, 4, 7, 7, 5, 8, 0, 7>>}

\* bytes of the partition calls: 'a' '.' '/'
PartBytes == {97, DOT, 47}

\* bytes of the split calls: 'a' 'b' ' '
SplitBytes == {97, 98, SPACE}

\* bytes of the unescape calls: '\' '"' 't' 'x'
UnescBytes == {BSLASH, QUOTE, 116, 120}

\* bytes of the natural-compare calls on '.' and ' ': '.' ' ' 'a'
NatDotBytes == {DOT, SPACE, 97}

a_dot_b == <<97, DOT, 98>>
a_1_dot_b == <<97, SPACE, 49, DOT, 98>>
foo_dot_bar == <<102, 111, 111, DOT, 98, 97, 114>>
foo_1_dot_bar == <<102, 111, 111, SPACE, 49, DOT, 98, 97, 114>>

\* the pairs the specification names for the '.' rule
NatDotExamples == {<<a_dot_b, a_1_dot_b>>, <<a_1_dot_b, a_dot_b>>,
                   <<foo_dot_bar, foo_1_dot_bar>>, <<foo_1_dot_bar, foo_dot_bar>>}

\* bytes of the natural-compare calls on several digit runs: '0' '1' '.'
NatTieBytes == {48, 49, DOT}

UINT64_MAX == <<1, 8, 4, 4, 6, 7, 4, 4, 0, 7, 3, 7, 0, 9, 5, 5, 1, 6, 1, 5>>

\* values on both sides of every change of the number of digits, and the
\* largest one
Uint64Samples ==
  UNION {{p, NumDec(p)} : p \in {NumPow(10, k) : k \in 1..19}} \cup {UINT64_MAX}

\* bytes next to the buffers, which the calls do not own
EnvBytes == {STAR, 97}

NoEnv == [before |-> 97, dbefore |-> 97, tail |-> <<>>]
Envs == [before : EnvBytes, dbefore : EnvBytes, tail : {<<>>}]

NoRet == [none |-> TRUE]

Args(o, a1, a2, a3, k, c, e) ==
  /\ op = o
  /\ pc = "call"
  /\ s1 = a1
  /\ s2 = a2
  /\ s3 = a3
  /\ n1 = k
  /\ ch = c
  /\ env = e
  /\ ret = NoRet

InitStrncpy ==
  \E s \in StringsUpTo(CopyBytes, MaxLen), c \in 1..MaxCap :
    Args("BLI_strncpy", s, <<>>, <<>>, c, NUL, NoEnv)

InitEscape ==
  \E s \in StringsUpTo(CopyBytes, MaxLen), c \in 1..(2 * MaxLen + 1) :
    Args("BLI_str_escape", s, <<>>, <<>>, c, NUL, NoEnv)

InitEnsurePad ==
  \E s \in StringsUpTo(CopyBytes, MaxLen), c \in 1..(MaxCap + 2), e \in Envs :
    Args("BLI_strncpy_ensure_pad", s, <<>>, <<>>, c, STAR, e)

\* escape into a buffer that is large enough, then unescape the result
InitEscapeUnescape ==
  \E s \in StringsUpTo(EscBytes, MaxLen), extra \in 0..1 :
    Args("escape_unescape", s, <<>>, <<>>, 2 * Len(s) + 1 + extra, NUL, NoEnv)

\* embed the escaped s1 after the prefix s2, then extract it
InitEmbedExtract ==
  \E s \in StringsUpTo(QuoteBytes, MaxLen), p \in StringsUpTo(PrefixBytes, MaxPrefix) :
    Args("embed_extract", s, p, <<>>, 2 * Len(s) + 1, NUL, NoEnv)

InitQuotedSubstr ==
  \E s \in StringsUpTo(PrefixBytes, MaxLen), p \in StringsUpTo(PrefixBytes, MaxPrefix),
     tl \in StringsUpTo({QUOTE, 112}, 2) :
    Args("BLI_str_quoted_substrN", s, p, <<>>, 0, NUL,
         [before |-> 97, dbefore |-> 97, tail |-> tl])

\* every pair of strings but the pairs of two strings of the full length
InitNatural ==
  \E pr \in {p \in StringsUpTo(NatBytes, NatLen) \X StringsUpTo(NatBytes, NatLen) :
               Len(p[1]) + Len(p[2]) < 2 * NatLen} \cup NatExamples :
    Args("BLI_strcasecmp_natural", pr[1], pr[2], <<>>, 0, NUL, NoEnv)

InitWordPrefix ==
  \E h \in StringsUpTo(WordBytes, WordHayLen) \cup {the_quick_fox, thefox},
     nd \in (StringsUpTo(WordBytes, WordNeedleLen) \ {<<>>}) \cup {fox} :
    \E n \in 1..Len(nd) :
      Args("BLI_string_has_word_prefix", h, nd, <<>>, n, NUL, NoEnv)

InitEndswith ==
  \E s \in StringsUpTo(AbBytes, MaxLen), nd \in StringsUpTo(AbBytes, MaxLen) :
    Args("BLI_str_endswith", s, nd, <<>>, 0, NUL, NoEnv)

InitIgnorePad ==
  \E pr \in (StringsUpTo(PadBytes, PadLen) \X StringsUpTo(PadBytes, PadLen))
            \cup {<<star_world, world_star>>, <<world_star, star_world>>} :
    Args("BLI_strcmp_ignore_pad", pr[1], pr[2], <<>>, 0, STAR, NoEnv)

InitFormatInt ==
  \E num \in (-GroupedRange..GroupedRange) \cup GroupedSamples :
    Args("BLI_str_format_int_grouped", <<>>, <<>>, <<>>, num, NUL, NoEnv)

InitByteUnit ==
  \E mag \in {NumOf(n) : n \in 0..ByteRange} \cup ByteSamples,
     neg \in BOOLEAN, base_10 \in {0, 1} :
    Args("BLI_str_format_byte_unit",
         (IF neg /\ mag # <<0>> THEN <<MINUS>> ELSE <<>>) \o NumText(mag),
         <<>>, <<>>, base_10, NUL, NoEnv)

InitPartition ==
  \E str \in StringsUpTo(PartBytes, PartLen), delim \in StringsUpTo(PartBytes, PartDelims),
     from_right \in {0, 1} :
    \E end \in {-1} \cup 1..Len(str) :
      Args("BLI_str_partition_ex", str, delim, <<>>, end, from_right, NoEnv)

InitSplitWords ==
  \E str \in StringsUpTo(SplitBytes, SplitLen), len \in 0..SplitMaxLen,
     words_max \in 0..SplitWordsMax, delim \in {SPACE, 97} :
    Args("BLI_string_find_split_words", str, <<>>, <<>>,
         [len |-> len, words_max |-> words_max], delim, NoEnv)

InitReplace ==
  \E str \in StringsUpTo(AbBytes, ReplLen), substr_old \in StringsUpTo(AbBytes, ReplSubLen),
     substr_new \in StringsUpTo(AbBytes, ReplSubLen) :
    /\ substr_old # <<>>
    /\ Args("BLI_str_replaceN", str, substr_old, substr_new, 0, NUL, NoEnv)

InitVsnprintf ==
  \E text \in StringsUpTo(AbBytes, FmtLen), maxncpy \in 1..FmtCap :
    Args("BLI_vsnprintf", text, <<>>, <<>>, maxncpy, NUL, NoEnv)

InitFindQuote ==
  \E s \in StringsUpTo(PrefixBytes, FindQuoteLen) :
    Args("BLI_str_escape_find_quote", s, <<>>, <<>>, 0, NUL, NoEnv)

InitUnescape ==
  \E s \in StringsUpTo(UnescBytes, UnescLen) :
    \E src_maxncpy \in 0..(Len(s) + 1) :
      Args("BLI_str_unescape", s, <<>>, <<>>, src_maxncpy, NUL, NoEnv)

InitNaturalDot ==
  \E pr \in (StringsUpTo(NatDotBytes, NatDotLen) \X StringsUpTo(NatDotBytes, NatDotLen))
            \cup NatDotExamples :
    Args("BLI_strcasecmp_natural", pr[1], pr[2], <<>>, 0, NUL, NoEnv)

\* every pair of strings of the same length
InitNaturalTie ==
  \E a \in StringsUpTo(NatTieBytes, NatTieLen), b \in StringsUpTo(NatTieBytes, NatTieLen) :
    /\ Len(a) = Len(b)
    /\ Args("BLI_strcasecmp_natural", a, b, <<>>, 0, NUL, NoEnv)

InitFormatUint64 ==
  \E mag \in {NumOf(n) : n \in 0..Uint64Range} \cup Uint64Samples :
    Args("BLI_str_format_uint64_grouped", NumText(mag), <<>>, <<>>, 0, NUL, NoEnv)

\* the whole string is split into an array of the size
\* BLI_string_max_possible_word_count gives for its length
InitSplitWordsAll ==
  \E str \in StringsUpTo(SplitBytes, SplitLen), delim \in {SPACE, 97} :
    Args("BLI_string_find_split_words", str, <<>>, <<>>,
         [len |-> Len(str), words_max |-> BLI_string_max_possible_word_count(Len(str))],
         delim, NoEnv)

Init ==
  \/ InitSplitWordsAll
  \/ InitFormatUint64
  \/ InitNaturalTie
  \/ InitNaturalDot
  \/ InitUnescape
  \/ InitFindQuote
  \/ InitVsnprintf
  \/ InitReplace
  \/ InitSplitWords
  \/ InitPartition
  \/ InitByteUnit
  \/ InitFormatInt
  \/ InitIgnorePad
  \/ InitEndswith
  \/ InitWordPrefix
  \/ InitNatural
  \/ InitStrncpy
  \/ InitEscape
  \/ InitEnsurePad
  \/ InitEscapeUnescape
  \/ InitEmbedExtract
  \/ InitQuotedSubstr

CallStrncpy ==
  /\ op = "BLI_strncpy"
  /\ pc = "call"
  /\ pc' = "done"
  /\ ret' = BLI_strncpy(s1, env, n1)
  /\ UNCHANGED <<op, s1, s2, s3, n1, ch, env>>

CallEscape ==
  /\ op = "BLI_str_escape"
  /\ pc = "call"
  /\ pc' = "done"
  /\ ret' = BLI_str_escape(s1, env, n1)
  /\ UNCHANGED <<op, s1, s2, s3, n1, ch, env>>

CallEnsurePad ==
  /\ op = "BLI_strncpy_ensure_pad"
  /\ pc = "call"
  /\ pc' = "done"
  /\ ret' = BLI_strncpy_ensure_pad(s1, env, ch, n1)
  /\ UNCHANGED <<op, s1, s2, s3, n1, ch, env>>

CallEscapeUnescape ==
  /\ op = "escape_unescape"
  /\ pc = "call"
  /\ pc' = "done"
  /\ LET esc == BLI_str_escape(s1, env, n1)
         un == BLI_str_unescape(CStr(esc.dst), env, 0, esc.len)
     IN ret' = [escaped |-> CStr(esc.dst), esc_len |-> esc.len,
                dst |-> un.dst, len |-> un.len]
  /\ UNCHANGED <<op, s1, s2, s3, n1, ch, env>>

CallEmbedExtract ==
  /\ op = "embed_extract"
  /\ pc = "call"
  /\ pc' = "done"
  /\ LET esc == BLI_str_escape(s1, env, n1)
         path == s2 \o <<QUOTE>> \o CStr(esc.dst) \o <<QUOTE>>
         sub == BLI_str_quoted_substrN(path, env, s2)
     IN ret' = [path |-> path, found |-> sub.found, str |-> sub.str,
                rdmax |-> sub.rdmax]
  /\ UNCHANGED <<op, s1, s2, s3, n1, ch, env>>

CallQuotedSubstr ==
  /\ op = "BLI_str_quoted_substrN"
  /\ pc = "call"
  /\ pc' = "done"
  /\ ret' = BLI_str_quoted_substrN(s1, env, s2)
  /\ UNCHANGED <<op, s1, s2, s3, n1, ch, env>>

CallNatural ==
  /\ op = "BLI_strcasecmp_natural"
  /\ pc = "call"
  /\ pc' = "done"
  /\ ret' = BLI_strcasecmp_natural(s1, s2, env)
  /\ UNCHANGED <<op, s1, s2, s3, n1, ch, env>>

CallWordPrefix ==
  /\ op = "BLI_string_has_word_prefix"
  /\ pc = "call"
  /\ pc' = "done"
  /\ ret' = [found |-> BLI_string_has_word_prefix(s1, env, 0, s2, n1)]
  /\ UNCHANGED <<op, s1, s2, s3, n1, ch, env>>

CallEndswith ==
  /\ op = "BLI_str_endswith"
  /\ pc = "call"
  /\ pc' = "done"
  /\ ret' = [ends |-> BLI_str_endswith(s1, s2, env),
             n_ends |-> BLI_strn_endswith(s1, s2, env, Len(s1))]
  /\ UNCHANGED <<op, s1, s2, s3, n1, ch, env>>

CallIgnorePad ==
  /\ op = "BLI_strcmp_ignore_pad"
  /\ pc = "call"
  /\ pc' = "done"
  /\ ret' = [ret |-> BLI_strcmp_ignore_pad(s1, s2, env, ch)]
  /\ UNCHANGED <<op, s1, s2, s3, n1, ch, env>>

CallFormatInt ==
  /\ op = "BLI_str_format_int_grouped"
  /\ pc = "call"
  /\ pc' = "done"
  /\ ret' = BLI_str_format_int_grouped(n1, env)
  /\ UNCHANGED <<op, s1, s2, s3, n1, ch, env>>

\* the magnitude and the sign of the byte count written in s1
BytesNeg == s1 # <<>> /\ s1[1] = MINUS
BytesMag == LET t == IF BytesNeg THEN Tail(s1) ELSE s1 IN [i \in 1..Len(t) |-> t[i] - 48]

CallByteUnit ==
  /\ op = "BLI_str_format_byte_unit"
  /\ pc = "call"
  /\ pc' = "done"
  /\ \E up \in BOOLEAN :
       ret' = BLI_str_format_byte_unit(BytesNeg, BytesMag, n1 = 1, env, up)
  /\ UNCHANGED <<op, s1, s2, s3, n1, ch, env>>

CallPartition ==
  /\ op = "BLI_str_partition_ex"
  /\ pc = "call"
  /\ pc' = "done"
  /\ ret' = [ex |-> BLI_str_partition_ex(s1, env, n1, s2, ch = 1),
             plain |-> IF ch = 1 THEN BLI_str_rpartition(s1, env, s2)
                       ELSE BLI_str_partition(s1, env, s2)]
  /\ UNCHANGED <<op, s1, s2, s3, n1, ch, env>>

CallSplitWords ==
  /\ op = "BLI_string_find_split_words"
  /\ pc = "call"
  /\ pc' = "done"
  /\ ret' = BLI_string_find_split_words(s1, env, n1.len, ch, n1.words_max)
  /\ UNCHANGED <<op, s1, s2, s3, n1, ch, env>>

CallReplace ==
  /\ op = "BLI_str_replaceN"
  /\ pc = "call"
  /\ pc' = "done"
  /\ ret' = [str |-> BLI_str_replaceN(s1, s2, s3)]
  /\ UNCHANGED <<op, s1, s2, s3, n1, ch, env>>

CallVsnprintf ==
  /\ op = "BLI_vsnprintf"
  /\ pc = "call"
  /\ pc' = "done"
  /\ ret' = [plain |-> BLI_vsnprintf(s1, n1), rlen |-> BLI_vsnprintf_rlen(s1, n1)]
  /\ UNCHANGED <<op, s1, s2, s3, n1, ch, env>>

CallFindQuote ==
  /\ op = "BLI_str_escape_find_quote"
  /\ pc = "call"
  /\ pc' = "done"
  /\ ret' = BLI_str_escape_find_quote(s1, env, 0)
  /\ UNCHANGED <<op, s1, s2, s3, n1, ch, env>>

CallUnescape ==
  /\ op = "BLI_str_unescape"
  /\ pc = "call"
  /\ pc' = "done"
  /\ ret' = BLI_str_unescape(s1, env, 0, n1)
  /\ UNCHANGED <<op, s1, s2, s3, n1, ch, env>>

CallFormatUint64 ==
  /\ op = "BLI_str_format_uint64_grouped"
  /\ pc = "call"
  /\ pc' = "done"
  /\ ret' = BLI_str_format_uint64_grouped([i \in 1..Len(s1) |-> s1[i] - 48], env)
  /\ UNCHANGED <<op, s1, s2, s3, n1, ch, env>>

Next ==
  \/ CallFormatUint64
  \/ CallUnescape
  \/ CallFindQuote
  \/ CallVsnprintf
  \/ CallReplace
  \/ CallSplitWords
  \/ CallPartition
  \/ CallByteUnit
  \/ CallFormatInt
  \/ CallIgnorePad
  \/ CallEndswith
  \/ CallWordPrefix
  \/ CallNatural
  \/ CallStrncpy
  \/ CallEscape
  \/ CallEnsurePad
  \/ CallEscapeUnescape
  \/ CallEmbedExtract
  \/ CallQuotedSubstr

Spec == Init /\ [][Next]_vars

Done(o) == op = o /\ pc = "done"

(* --------- natural compare as the order of a sort, on triples ---------- *)

InitOrder ==
  /\ op = "order"
  /\ pc = "ab"
  /\ s1 \in StringsUpTo(OrdBytes, OrdLen)
  /\ s2 \in StringsUpTo(OrdBytes, OrdLen)
  /\ s3 \in StringsUpTo(OrdBytes, OrdLen)
  /\ n1 = 0
  /\ ch = NUL
  /\ env = NoEnv
  /\ ret = [ab |-> 0, ba |-> 0, bc |-> 0, ac |-> 0]

CompareAB ==
  /\ pc = "ab"
  /\ pc' = "ba"
  /\ ret' = [ret EXCEPT !.ab = BLI_strcasecmp_natural(s1, s2, env).ret]
  /\ UNCHANGED <<op, s1, s2, s3, n1, ch, env>>

CompareBA ==
  /\ pc = "ba"
  /\ pc' = "bc"
  /\ ret' = [ret EXCEPT !.ba = BLI_strcasecmp_natural(s2, s1, env).ret]
  /\ UNCHANGED <<op, s1, s2, s3, n1, ch, env>>

CompareBC ==
  /\ pc = "bc"
  /\ pc' = "ac"
  /\ ret' = [ret EXCEPT !.bc = BLI_strcasecmp_natural(s2, s3, env).ret]
  /\ UNCHANGED <<op, s1, s2, s3, n1, ch, env>>

CompareAC ==
  /\ pc = "ac"
  /\ pc' = "done"
  /\ ret' = [ret EXCEPT !.ac = BLI_strcasecmp_natural(s1, s3, env).ret]
  /\ UNCHANGED <<op, s1, s2, s3, n1, ch, env>>

NextOrder ==
  \/ CompareAB
  \/ CompareBA
  \/ CompareBC
  \/ CompareAC

SpecOrder == InitOrder /\ [][NextOrder]_vars

(* ------------------------------ claims --------------------------------- *)

\* C1: for every capacity c >= 1 and source s, BLI_strncpy writes only
\* dst[0..c-1], leaves dst terminated at index min(strlen(s), c-1), and
\* leaves dst equal to s when strlen(s) < c.
C1_StrncpyBounded ==
  Done("BLI_strncpy") =>
    /\ DOMAIN ret.dst \subseteq 0..(n1 - 1)
    /\ TerminatedAt(ret.dst, Min(Len(s1), n1 - 1))
    /\ (Len(s1) < n1 => CStr(ret.dst) = s1)
    /\ CStr(ret.dst) = Take(s1, n1 - 1)

\* a truncating copy and a fitting copy have both been made
C1_Witness ==
  /\ Done("BLI_strncpy")
  /\ Len(s1) = n1
  /\ n1 >= 2
  /\ Len(CStr(ret.dst)) = n1 - 1

\* C2: for every capacity c >= 1 and source s, BLI_str_escape writes at
\* most c bytes of dst, terminator included: the terminator is at an index
\* <= c-1 and the returned length is <= c-1.
C2_EscapeBounded ==
  Done("BLI_str_escape") =>
    /\ DOMAIN ret.dst \subseteq 0..(n1 - 1)
    /\ ret.len <= n1 - 1
    /\ TerminatedAt(ret.dst, ret.len)

\* C3: for every capacity c >= 1, pad byte and source s,
\* BLI_strncpy_ensure_pad writes at most c bytes of dst, terminator
\* included, never lets its remaining-capacity or copy-length counter go
\* below zero, and reads no byte located before s[0].
C3_EnsurePadBounded ==
  Done("BLI_strncpy_ensure_pad") =>
    /\ DOMAIN ret.dst \subseteq 0..(n1 - 1)
    /\ ~ret.wrapped
    /\ ret.rdmin >= 0

\* C4: for every string s and a destination capacity of at least
\* 2*strlen(s)+1, unescaping the output of escape(s) with a scan limit equal
\* to the escaped length yields exactly s, for arbitrary bytes in s.
C4_EscapeUnescapeIdentity ==
  Done("escape_unescape") =>
    /\ CStr(ret.dst) = s1
    /\ ret.len = Len(s1)

\* a string that mixes escaped bytes, the letter of an escape pair and a
\* backslash has made the round trip
C4_Witness ==
  /\ Done("escape_unescape")
  /\ Len(s1) = MaxLen
  /\ \E i, j, k \in 1..Len(s1) :
       s1[i] = BSLASH /\ s1[j] = 116 /\ s1[k] = LF /\ i < j
  /\ ret.esc_len > Len(s1)
  /\ CStr(ret.dst) = s1

\* C5: for every prefix p and string s, the quoted substring extracted from
\* p + '"' + escape(s) + '"' with prefix p is s, also when s holds double
\* quotes, backslashes or a copy of p.
C5_EmbedExtractIdentity ==
  Done("embed_extract") => ret.found /\ ret.str = s1

\* the text holds a quote, a backslash and a copy of the non-empty prefix
C5_Witness ==
  /\ Done("embed_extract")
  /\ s2 # <<>>
  /\ strstr(s1, s2) # -1
  /\ \E i, j \in 1..Len(s1) : s1[i] = QUOTE /\ s1[j] = BSLASH
  /\ ret.found
  /\ ret.str = s1

\* no un-escaped quote in the string s from index i on
NoClosingQuote(s, i) == BLI_str_escape_find_quote(s, [before |-> NUL, dbefore |-> NUL, tail |-> <<>>], Min(i, Len(s))).pos = -1

\* C6: BLI_str_quoted_substrN returns NULL when prefix does not occur in
\* str and when no un-escaped closing quote follows the opening position,
\* and it reads no byte beyond the terminator of str, also when nothing
\* follows the first occurrence of prefix.
C6_QuotedSubstrNotFound ==
  Done("BLI_str_quoted_substrN") =>
    /\ ret.rdmax <= Len(s1)
    /\ (strstr(s1, s2) = -1 => ~ret.found)
    /\ (strstr(s1, s2) # -1 /\ NoClosingQuote(s1, strstr(s1, s2) + Len(s2) + 1)
          => ~ret.found)

\* C7: natural compare is a strict total order: the sign of compare(a,b)
\* is the opposite of the sign of compare(b,a), and compare(a,b) < 0 and
\* compare(b,c) < 0 imply compare(a,c) < 0.
C7_NaturalStrictOrder ==
  (op = "order" /\ pc = "done") =>
    /\ Sign(ret.ab) = -Sign(ret.ba)
    /\ (ret.ab < 0 /\ ret.bc < 0 => ret.ac < 0)

Zeros(j) == [i \in 1..j |-> 48]

\* index k (0-based) of s starts a maximal run of decimal digits
RunStart(s, k) ==
  /\ k < Len(s)
  /\ isdigit(s[k + 1])
  /\ (k = 0 \/ ~isdigit(s[k]))

\* a is b with one or more '0' put in front of one of its digit runs
MoreLeadingZeros(a, b) ==
  /\ Len(a) > Len(b)
  /\ \E k \in 0..(Len(b) - 1) :
       /\ RunStart(b, k)
       /\ a = Take(b, k) \o Zeros(Len(a) - Len(b)) \o Drop(b, k)

\* C8 as stated: when two strings differ only in the number of leading
\* zeros of one embedded number, the string with MORE leading zeros is
\* ordered first; compare("007","07") < 0 and compare("07","7") < 0.
C8_MoreZerosFirst ==
  Done("BLI_strcasecmp_natural") =>
    /\ (MoreLeadingZeros(s1, s2) => ret.ret < 0)
    /\ (MoreLeadingZeros(s2, s1) => ret.ret > 0)

\* C8 amended: when two strings differ only in the number of leading zeros
\* of one embedded number, the string with FEWER leading zeros is ordered
\* first; compare("007","07") > 0 and compare("07","7") > 0.
C8_FewerZerosFirst ==
  Done("BLI_strcasecmp_natural") =>
    /\ (MoreLeadingZeros(s1, s2) => ret.ret > 0)
    /\ (MoreLeadingZeros(s2, s1) => ret.ret < 0)

\* "007" has been compared with "07"
C8_Witness ==
  /\ Done("BLI_strcasecmp_natural")
  /\ s1 = n007
  /\ s2 = n07
  /\ MoreLeadingZeros(s1, s2)
  /\ ret.ret > 0

RECURSIVE RunValue(_, _, _)
\* the number written by the digits of s from index k (0-based) on, acc
\* being the number read so far
RunValue(s, k, acc) ==
  IF k < Len(s) /\ isdigit(s[k + 1])
  THEN RunValue(s, k + 1, 10 * acc + (s[k + 1] - 48))
  ELSE acc

FoldEq(a, b) == Len(a) = Len(b) /\ \A i \in 1..Len(a) : tolower(a[i]) = tolower(b[i])

\* a and b are equal ignoring case up to index k, where each starts a
\* maximal digit run, and the two runs denote different numbers
NumbersDifferAt(a, b, k) ==
  /\ RunStart(a, k)
  /\ RunStart(b, k)
  /\ FoldEq(Take(a, k), Take(b, k))
  /\ RunValue(a, k, 0) # RunValue(b, k, 0)

C10_ExhaustedFirst ==
  (Done("BLI_strcasecmp_natural") /\ ret.exit = "end") =>
    /\ (Rd(s1, env, ret.d1) = NUL /\ Rd(s2, env, ret.d2) # NUL => ret.ret < 0)
    /\ (Rd(s2, env, ret.d2) = NUL /\ Rd(s1, env, ret.d1) # NUL => ret.ret > 0)

\* index i (0-based) of h is a word boundary: the start of h, or directly
\* after a space or a punctuation byte
WordBoundary(h, i) == i = 0 \/ h[i] = 32 \/ ispunct(h[i])

\* the first n bytes of nd occur in h at index i, ignoring case
OccursAt(h, nd, n, i) ==
  /\ i + n <= Len(h)
  /\ \A k \in 1..n : tolower(h[i + k]) = tolower(nd[k])

\* C11: BLI_string_has_word_prefix(haystack, needle, n) is true if and only
\* if the original haystack holds a case-insensitive occurrence of the first
\* n bytes of needle that starts at index 0 or directly after a space or
\* punctuation byte; an occurrence directly after a letter or digit never
\* makes it true, also when found after an earlier failed candidate.
C11_WordPrefixAtBoundary ==
  Done("BLI_string_has_word_prefix") =>
    (ret.found <=> \E i \in 0..Len(s1) : WordBoundary(s1, i) /\ OccursAt(s1, s2, n1, i))

\* x is a literal suffix of s
IsSuffix(x, s) == Len(x) <= Len(s) /\ Drop(s, Len(s) - Len(x)) = x

\* C12: BLI_str_endswith(s, e) is true if and only if e is a literal suffix
\* of s, for all s and e, including e equal to s and e empty;
\* BLI_strn_endswith(s, e, strlen(s)) returns the same value.
C12_EndswithIffSuffix ==
  Done("BLI_str_endswith") =>
    /\ (ret.ends <=> IsSuffix(s2, s1))
    /\ ret.n_ends = ret.ends

\* s without its leading and trailing pad bytes
Stripped(s, pad) ==
  LET keep == {i \in 1..Len(s) : s[i] # pad}
  IN IF keep = {} THEN <<>>
     ELSE SubSeq(s, CHOOSE i \in keep : \A j \in keep : i <= j,
                    CHOOSE i \in keep : \A j \in keep : i >= j)

\* the sign the claim gives to two different stripped strings
StrippedSign(x, y) ==
  LET m == Min(Len(x), Len(y))
      diff == {i \in 1..m : x[i] # y[i]}
  IN IF diff # {}
     THEN LET i == CHOOSE k \in diff : \A j \in diff : k <= j IN Sign(x[i] - y[i])
     ELSE Sign(Len(x) - Len(y))

\* C13: BLI_strcmp_ignore_pad(a, b, pad) is 0 if and only if a and b are
\* byte-equal after removing every leading and trailing pad byte from each;
\* otherwise its sign is that of the first differing byte within the shorter
\* stripped length or, if there is none, positive when stripped a is longer
\* and negative when it is shorter.  ("*world","world*") and ("**a","a*")
\* give 0.
C13_IgnorePadCompare ==
  Done("BLI_strcmp_ignore_pad") =>
    LET x == Stripped(s1, ch)
        y == Stripped(s2, ch)
    IN /\ (ret.ret = 0 <=> x = y)
       /\ Sign(ret.ret) = StrippedSign(x, y)

\* "**a" has been compared with "a*"
C13_Witness ==
  /\ Done("BLI_strcmp_ignore_pad")
  /\ s1 = <<STAR, STAR, 97>>
  /\ s2 = <<97, STAR>>
  /\ ret.ret = 0

RECURSIVE WithoutCommas(_)
WithoutCommas(s) ==
  IF s = <<>> THEN <<>>
  ELSE IF s[1] = COMMA THEN WithoutCommas(Tail(s))
  ELSE <<s[1]>> \o WithoutCommas(Tail(s))

\* the text s is a grouped number: an optional '-', then digits with a comma
\* before every group of three digits counted from the right
Grouped(s) ==
  LET neg == s # <<>> /\ s[1] = MINUS
      body == IF neg THEN Tail(s) ELSE s
      L == Len(body)
  IN /\ L >= 1
     /\ \A i \in 1..L :
          IF (L - i + 1) % 4 = 0 THEN body[i] = COMMA ELSE isdigit(body[i])
     /\ body[1] # COMMA

\* C14: for every 32-bit signed n, BLI_str_format_int_grouped writes the
\* decimal digits of n with a comma before every group of three digits
\* counted from the right, no comma at the start or end, a leading '-' for
\* negative n before the first digit and outside the grouping, and returns
\* the length of the text, at most 15, within dst[16]; 1000 gives "1,000"
\* and -1234567 gives "-1,234,567".
C14_FormatIntGrouped ==
  Done("BLI_str_format_int_grouped") =>
    LET s == CStr(ret.dst)
    IN /\ Grouped(s)
       /\ WithoutCommas(s) = sprintf_d(n1)
       /\ (s[1] = MINUS <=> n1 < 0)
       /\ ret.len = Len(s)
       /\ ret.len <= 15
       /\ DOMAIN ret.dst \subseteq 0..15
       /\ (n1 = 1000 => s = <<49, COMMA, 48, 48, 48>>)
       /\ (n1 = -1234567 => s = <<MINUS, 49, COMMA, 50, 51, 52, COMMA, 53, 54, 55>>)

\* -1234567 has been formatted
C14_Witness ==
  /\ Done("BLI_str_format_int_grouped")
  /\ n1 = -1234567
  /\ Len(CStr(ret.dst)) = 10
  /\ ret.len = 10

\* the text written by BLI_str_format_byte_unit, its part before the space
\* and its part after the space
ByteUnitText == CStr(ret.dst)
ByteUnitSpace == CHOOSE i \in 1..Len(ByteUnitText) : ByteUnitText[i] = SPACE
ByteUnitNumber == Take(ByteUnitText, ByteUnitSpace - 1)
ByteUnitSuffix == Drop(ByteUnitText, ByteUnitSpace)

\* the byte count is the numeral text t and base_10 is b
ByteUnitOf(t, b) == Done("BLI_str_format_byte_unit") /\ s1 = t /\ n1 = b

\* C15 as stated: 1000 bytes in base 10 give "1 KB", 1024 bytes in base 2
\* give "1 KiB" and 1536 bytes in base 2 give "1.5 KiB".
C15_ByteUnitExamples ==
  /\ (ByteUnitOf(<<49, 48, 48, 48>>, 1) => ByteUnitText = <<49, 32, 75, 66>>)
  /\ (ByteUnitOf(<<49, 48, 50, 52>>, 0) => ByteUnitText = <<49, 32, 75, 105, 66>>)
  /\ (ByteUnitOf(<<49, 53, 51, 54>>, 0) => ByteUnitText = <<49, 46, 53, 32, 75, 105, 66>>)

\* C15 amended: 1000 bytes in base 10 give "1 KB", 1024 bytes in base 2 give
\* "1 KiB" and 1536 bytes in base 2 give "2 KiB" (kilo units are printed
\* without decimals); 1572864 bytes in base 2 give "1.5 MiB".
C15_ByteUnitExamplesKilo ==
  /\ (ByteUnitOf(<<49, 48, 48, 48>>, 1) => ByteUnitText = <<49, 32, 75, 66>>)
  /\ (ByteUnitOf(<<49, 48, 50, 52>>, 0) => ByteUnitText = <<49, 32, 75, 105, 66>>)
  /\ (ByteUnitOf(<<49, 53, 51, 54>>, 0) => ByteUnitText = <<50, 32, 75, 105, 66>>)
  /\ (ByteUnitOf(<<49, 53, 55, 50, 56, 54, 52>>, 0) =>
        ByteUnitText = <<49, 46, 53, 32, 77, 105, 66>>)

\* 1536 bytes have been formatted in base 2
C15_Witness ==
  /\ ByteUnitOf(<<49, 53, 51, 54>>, 0)
  /\ ret.order = 1
  /\ ByteUnitText = <<50, 32, 75, 105, 66>>

\* the numeral A is less than the numeral B
NumLess(A, B) ==
  LET x == NumNorm(A)
      y == NumNorm(B)
  IN \/ Len(x) < Len(y)
     \/ /\ Len(x) = Len(y)
        /\ \E i \in 1..Len(x) : x[i] < y[i] /\ \A j \in 1..(i - 1) : x[j] = y[j]

\* the unit index of the claim: the least k in 0..5 with |bytes| < base^(k+1),
\* or 5
UnitIndex(mag, base) ==
  LET ks == {k \in 0..5 : NumLess(mag, NumPow(base, k + 1))}
  IN IF ks = {} THEN 5 ELSE CHOOSE k \in ks : \A j \in ks : k <= j

\* the number of bytes of t after its '.', 0 without one
DecimalPlaces(t) ==
  LET dots == {i \in 1..Len(t) : t[i] = DOT}
  IN IF dots = {} THEN 0 ELSE Len(t) - (CHOOSE i \in dots : TRUE)

\* the digits of t as a numeral
DigitsOf(t) == NumNorm(SelectSeq([i \in 1..Len(t) |-> t[i] - 48], LAMBDA d : d \in 0..9))

\* the text t is a number of d decimals that is mag / base^k rounded down or
\* up at the last place, without sign
FormatsQuotient(t, mag, base, k, d) ==
  LET q == NumDivPow(mag \o [i \in 1..d |-> 0], base, k, FALSE).q
  IN /\ \A i \in 1..Len(t) : isdigit(t[i]) \/ t[i] = DOT
     /\ DecimalPlaces(t) = d
     /\ (d = 0 => \A i \in 1..Len(t) : t[i] # DOT)
     /\ isdigit(t[1])
     /\ DigitsOf(t) \in {q, NumAdd(q, 1)}

\* the unit index and the suffix of the claim are the ones used
UnitChosen ==
  LET base == IF n1 = 1 THEN 1000 ELSE 1024
      k == UnitIndex(BytesMag, base)
  IN /\ ret.order = k
     /\ ret.decimals = Max(k - 1, 0)
     /\ ByteUnitSuffix = (IF n1 = 1 THEN units_base_10 ELSE units_base_2)[k + 1]

\* C16 as stated: for every byte count and either base the unit index k is
\* the least k in 0..5 with |bytes| < base^(k+1), or 5, the suffix is taken
\* from the table of the base, and |bytes| / base^k is formatted with exactly
\* max(k-1,0) decimal places before any zero stripping.
C16_FormatsMagnitude ==
  Done("BLI_str_format_byte_unit") =>
    /\ UnitChosen
    /\ FormatsQuotient(ret.formatted, BytesMag, IF n1 = 1 THEN 1000 ELSE 1024,
                       ret.order, Max(ret.order - 1, 0))

\* C16 amended: the unit index and the suffix are as stated, and
\* bytes / base^k, a '-' first when bytes is negative, is formatted with
\* exactly max(k-1,0) decimal places before any zero stripping.
C16_FormatsSigned ==
  Done("BLI_str_format_byte_unit") =>
    /\ UnitChosen
    /\ (ret.formatted[1] = MINUS <=> BytesNeg)
    /\ FormatsQuotient(IF BytesNeg THEN Tail(ret.formatted) ELSE ret.formatted,
                       BytesMag, IF n1 = 1 THEN 1000 ELSE 1024,
                       ret.order, Max(ret.order - 1, 0))

\* a negative count of peta units has been formatted with four decimals
C16_Witness ==
  /\ Done("BLI_str_format_byte_unit")
  /\ BytesNeg
  /\ ret.order = 5
  /\ DecimalPlaces(ret.formatted) = 4
  /\ ret.formatted[1] = MINUS

\* C17 as stated: the numeric part never ends in a fractional zero, the
\* decimal point goes too when the whole fraction is zero, and exactly
\* 1,000,000 bytes in base 10 print as an integer, a space and the unit.
C17_NoFractionalZero ==
  Done("BLI_str_format_byte_unit") =>
    LET t == ByteUnitNumber
    IN /\ (DecimalPlaces(t) > 0 => t[Len(t)] # 48)
       /\ t[Len(t)] # DOT
       /\ (s1 = <<49, 48, 48, 48, 48, 48, 48>> /\ n1 = 1 =>
             \A i \in 1..Len(t) : isdigit(t[i]))

\* C17 amended: the numeric part is the formatted number without its
\* trailing zeros beyond the first decimal place: the decimal point and the
\* first decimal digit always stay, and a numeric part of two or more
\* decimals does not end in a zero.  Exactly 1,000,000 bytes in base 10
\* print as "1.0 MB", 1,500,000,000 bytes as "1.5 GB".
C17_ZerosAfterFirstDecimal ==
  Done("BLI_str_format_byte_unit") =>
    LET t == ByteUnitNumber
        f == ret.formatted
    IN /\ Len(t) <= Len(f)
       /\ Take(f, Len(t)) = t
       /\ \A i \in (Len(t) + 1)..Len(f) : f[i] = 48
       /\ (DecimalPlaces(f) > 0 => DecimalPlaces(t) >= 1)
       /\ (DecimalPlaces(t) >= 2 => t[Len(t)] # 48)
       /\ (DecimalPlaces(f) = 0 => t = f)
       /\ (s1 = <<49, 48, 48, 48, 48, 48, 48>> /\ n1 = 1 =>
             ByteUnitText = <<49, 46, 48, 32, 77, 66>>)
       /\ (s1 = <<49, 53, 48, 48, 48, 48, 48, 48, 48, 48>> /\ n1 = 1 =>
             ByteUnitText = <<49, 46, 53, 32, 71, 66>>)

\* 1,500,000,000 bytes have been formatted in base 10 and a zero stripped
C17_Witness ==
  /\ ByteUnitOf(<<49, 53, 48, 48, 48, 48, 48, 48, 48, 48>>, 1)
  /\ ret.formatted = <<49, 46, 53, 48>>
  /\ ret.totstrip = 1
  /\ ByteUnitText = <<49, 46, 53, 32, 71, 66>>

\* the offsets of the delimiter bytes within the first n bytes of str
DelimOffsets(str, delim, n) ==
  {i \in 0..(n - 1) : \E k \in 1..Len(delim) : str[i + 1] = delim[k]}

\* the result the claim gives for the searched range of n bytes
PartitionOf(str, delim, n, from_right) ==
  LET hits == DelimOffsets(str, delim, n)
  IN IF hits = {} THEN [sep |-> -1, suf |-> -1, ret |-> n]
     ELSE LET sep == IF from_right THEN CHOOSE i \in hits : \A j \in hits : i >= j
                     ELSE CHOOSE i \in hits : \A j \in hits : i <= j
          IN [sep |-> sep, suf |-> sep + 1, ret |-> sep]

\* C18: for every string, delimiter set, direction and optional end bound,
\* if a delimiter byte occurs in the searched range [str, end) (the whole
\* string without end), BLI_str_partition_ex sets sep to the leftmost such
\* byte (rightmost when from_right), suf to sep + 1, and returns sep - str;
\* if none occurs sep and suf are null and the length of the searched range
\* is returned.  BLI_str_partition and BLI_str_rpartition are the calls
\* without end.
C18_Partition ==
  Done("BLI_str_partition_ex") =>
    /\ ret.ex = PartitionOf(s1, s2, IF n1 = -1 THEN Len(s1) ELSE n1, ch = 1)
    /\ ret.plain = PartitionOf(s1, s2, Len(s1), ch = 1)

\* "a/." has been searched from the left up to its second byte for '.' and
\* '/', both delimiters occurring in the string
C18_Witness ==
  /\ Done("BLI_str_partition_ex")
  /\ s1 = <<97, 47, DOT>>
  /\ s2 = <<DOT, 47>>
  /\ n1 = 2
  /\ ch = 0
  /\ ret.ex = [sep |-> 1, suf |-> 2, ret |-> 1]

\* the maximal runs of bytes other than delim in p, as <<offset, length>>
Runs(p, delim) ==
  {r \in (0..Len(p)) \X (1..Len(p)) :
     /\ r[1] + r[2] <= Len(p)
     /\ \A i \in (r[1] + 1)..(r[1] + r[2]) : p[i] # delim
     /\ (r[1] = 0 \/ p[r[1]] = delim)
     /\ (r[1] + r[2] = Len(p) \/ p[r[1] + r[2] + 1] = delim)}

\* C19: for every string, length bound len, delimiter and words_max >= 0,
\* BLI_string_find_split_words returns a count k <= words_max, writes only
\* the entries 0..k-1 of r_words, and these are, in order, the (offset,
\* length) of the first k maximal runs of bytes other than the delimiter
\* within the first len bytes of the string; every run has no delimiter and
\* a length >= 1.  k is words_max or the number of runs, whichever is less.
C19_SplitWords ==
  Done("BLI_string_find_split_words") =>
    LET p == Take(s1, n1.len)
        runs == Runs(p, ch)
        k == ret.n
        w == ret.r_words
    IN /\ k <= n1.words_max
       /\ k = Min(n1.words_max, Cardinality(runs))
       /\ DOMAIN w = (0..(k - 1)) \X {0, 1}
       /\ \A n \in 0..(k - 1) :
            /\ <<w[<<n, 0>>], w[<<n, 1>>]>> \in runs
            /\ Cardinality({r \in runs : r[1] < w[<<n, 0>>]}) = n
            /\ w[<<n, 1>>] >= 1
            /\ \A i \in (w[<<n, 0>>] + 1)..(w[<<n, 0>>] + w[<<n, 1>>]) : s1[i] # ch

\* " a b" has been split at ' ' with room for one word less than it has
C19_Witness ==
  /\ Done("BLI_string_find_split_words")
  /\ s1 = <<SPACE, 97, SPACE, 98>>
  /\ ch = SPACE
  /\ n1 = [len |-> 4, words_max |-> 1]
  /\ ret.n = 1
  /\ ret.r_words[<<0, 0>>] = 1
  /\ ret.r_words[<<0, 1>>] = 1

RECURSIVE Replaced(_, _, _)
\* s read from the left, byte by byte, each occurrence of old met being
\* replaced by new and skipped
Replaced(s, old, new) ==
  IF s = <<>> THEN <<>>
  ELSE IF Take(s, Len(old)) = old THEN new \o Replaced(Drop(s, Len(old)), old, new)
  ELSE <<s[1]>> \o Replaced(Tail(s), old, new)

\* C20: for every s, non-empty old and any new, BLI_str_replaceN returns s
\* with each non-overlapping occurrence of old, found from left to right,
\* replaced by new, the scan resuming right after the occurrence and never
\* reading inserted text; without an occurrence the result is s, and when
\* old and new have the same length the result has the length of s.
C20_ReplaceAll ==
  Done("BLI_str_replaceN") =>
    /\ ret.str = Replaced(s1, s2, s3)
    /\ (strstr(s1, s2) = -1 => ret.str = s1)
    /\ (Len(s2) = Len(s3) => Len(ret.str) = Len(s1))

\* "aaab" has had "aa" replaced by "a": the occurrences overlap and the new
\* text ends in the start of the old
C20_Witness ==
  /\ Done("BLI_str_replaceN")
  /\ s1 = <<97, 97, 97, 98>>
  /\ s2 = <<97, 97>>
  /\ s3 = <<97>>
  /\ ret.str = <<97, 97, 98>>

\* C21: for every capacity c >= 1 and formatted text of length L,
\* BLI_vsnprintf_rlen leaves the buffer terminated at index min(L, c-1) and
\* returns min(L, c-1), the length of the text in the buffer; BLI_vsnprintf
\* leaves the same buffer contents and returns L; neither writes beyond
\* index c-1.
C21_FormatTruncate ==
  Done("BLI_vsnprintf") =>
    LET m == Min(Len(s1), n1 - 1)
    IN /\ ret.rlen.n = m
       /\ ret.rlen.dst[m] = NUL
       /\ CStr(ret.rlen.dst) = Take(s1, m)
       /\ Len(CStr(ret.rlen.dst)) = ret.rlen.n
       /\ ret.plain.dst = ret.rlen.dst
       /\ ret.plain.n = Len(s1)
       /\ DOMAIN ret.rlen.dst \subseteq 0..(n1 - 1)
       /\ DOMAIN ret.plain.dst \subseteq 0..(n1 - 1)

\* a text of four bytes has been formatted into a buffer of three
C21_Witness ==
  /\ Done("BLI_vsnprintf")
  /\ Len(s1) = 4
  /\ n1 = 3
  /\ ret.plain.n = 4
  /\ ret.rlen.n = 2

\* the length of the run of backslashes that ends right before the 0-based
\* index i of s
BackslashRun(s, i) ==
  LET stops == {j \in 0..i : j = 0 \/ s[j] # BSLASH}
  IN i - (CHOOSE j \in stops : \A k \in stops : j >= k)

\* the 0-based indexes of the quotes of s that follow a run of backslashes
\* of even length
OpenQuotes(s) ==
  {i \in 0..(Len(s) - 1) : s[i + 1] = QUOTE /\ BackslashRun(s, i) % 2 = 0}

\* C22: BLI_str_escape_find_quote(str) returns the position of the first
\* double quote of str that follows a run of backslashes of even length
\* (zero included), and NULL when there is no such quote; a quote that
\* follows a run of odd length is never returned.
C22_FindQuote ==
  Done("BLI_str_escape_find_quote") =>
    /\ (OpenQuotes(s1) = {} => ret.pos = -1)
    /\ (OpenQuotes(s1) # {} =>
          /\ ret.pos \in OpenQuotes(s1)
          /\ \A i \in OpenQuotes(s1) : ret.pos <= i)
    /\ (ret.pos # -1 => s1[ret.pos + 1] = QUOTE /\ BackslashRun(s1, ret.pos) % 2 = 0)

\* the quote after two backslashes has been found behind an escaped quote
C22_Witness ==
  /\ Done("BLI_str_escape_find_quote")
  /\ s1 = <<BSLASH, QUOTE, BSLASH, BSLASH, QUOTE>>
  /\ ret.pos = 4

\* the second bytes of the escape pairs and the bytes they stand for
EscapePairs ==
  (QUOTE :> QUOTE) @@ (BSLASH :> BSLASH) @@ (116 :> TAB) @@ (110 :> LF) @@
  (114 :> CR) @@ (97 :> BEL) @@ (98 :> BS) @@ (102 :> FF)

RECURSIVE Decoded(_)
\* s with every escape pair replaced by its byte, read from the left
Decoded(s) ==
  IF s = <<>> THEN <<>>
  ELSE IF s[1] = BSLASH /\ Len(s) >= 2 /\ s[2] \in DOMAIN EscapePairs
  THEN <<EscapePairs[s[2]]>> \o Decoded(Drop(s, 2))
  ELSE <<s[1]>> \o Decoded(Tail(s))

\* C23: for every source and scan limit, BLI_str_unescape decodes each
\* backslash followed by one of " \ t n r a b f into the byte it stands for
\* and copies every other byte unchanged (a backslash before any other byte
\* is copied, and so is the byte after it), terminates dst, and returns the
\* number of bytes written, which never exceeds the number of source bytes
\* consumed; the bytes consumed include every byte within the limit.
C23_UnescapeDecodes ==
  Done("BLI_str_unescape") =>
    /\ ret.used >= Min(n1, Len(s1))
    /\ ret.used <= Len(s1)
    /\ CStr(ret.dst) = Decoded(Take(s1, ret.used))
    /\ ret.dst[ret.len] = NUL
    /\ ret.len = Len(CStr(ret.dst))
    /\ DOMAIN ret.dst = 0..ret.len
    /\ ret.len <= ret.used

\* a pair, a backslash before 'x' and the 'x' have been decoded
C23_Witness ==
  /\ Done("BLI_str_unescape")
  /\ s1 = <<BSLASH, 116, BSLASH, 120>>
  /\ n1 = 4
  /\ CStr(ret.dst) = <<TAB, BSLASH, 120>>
  /\ ret.len = 3
  /\ ret.used = 4

\* C27: for every source and scan limit n, BLI_str_unescape reads no source
\* byte at an index >= n and consumes at most n source bytes, also when the
\* byte at index n-1 is a backslash.
C27_UnescapeWithinLimit ==
  Done("BLI_str_unescape") =>
    /\ ret.rdmax < n1
    /\ ret.used <= n1

\* src with the pads it lacks added
Padded(src, pad) ==
  (IF src[1] # pad THEN <<pad>> ELSE <<>>) \o src \o
  (IF src[Len(src)] # pad THEN <<pad>> ELSE <<>>)

\* C24: for capacities of at least 3, BLI_strncpy_ensure_pad gives an empty
\* dst for an empty src; for a non-empty src, dst is non-empty and fits the
\* capacity, its first and its last byte are the pad, a pad is added only on
\* a side where the copied text lacks one, and the text between is a prefix
\* of src; when src with its missing pads fits in the capacity, dst is
\* exactly src with the missing pads added.
C24_EnsurePad ==
  Done("BLI_strncpy_ensure_pad") /\ n1 >= 3 =>
    LET d == CStr(ret.dst)
    IN /\ ~ret.fault
       /\ (s1 = <<>> => d = <<>>)
       /\ (s1 # <<>> =>
             /\ d # <<>>
             /\ Len(d) <= n1 - 1
             /\ d[1] = ch
             /\ d[Len(d)] = ch
             /\ \E k \in 0..Len(s1), lead \in BOOLEAN, trail \in BOOLEAN :
                  LET text == Take(s1, k)
                  IN /\ d = (IF lead THEN <<ch>> ELSE <<>>) \o text \o
                            (IF trail THEN <<ch>> ELSE <<>>)
                     /\ (lead <=> s1[1] # ch)
                     /\ (trail => text = <<>> \/ text[Len(text)] # ch)
             /\ (Len(Padded(s1, ch)) <= n1 - 1 => d = Padded(s1, ch)))

\* a source without pads has been copied whole into a buffer it just fits,
\* and cut by one byte into the next smaller one
C24_Witness ==
  /\ Done("BLI_strncpy_ensure_pad")
  /\ s1 = <<116, 116>>
  /\ \/ n1 = 5 /\ CStr(ret.dst) = <<STAR, 116, 116, STAR>>
     \/ n1 = 4 /\ CStr(ret.dst) = <<STAR, 116, STAR>>

\* a and b are equal ignoring case in their first k bytes, both have a byte
\* after them, these bytes differ ignoring case, the one of a is a '.', and
\* the one of b does not continue a digit run of b
DotAgainstOther(a, b, k) ==
  /\ k < Len(a)
  /\ k < Len(b)
  /\ a[k + 1] = DOT
  /\ b[k + 1] # DOT
  /\ \A i \in 1..k : tolower(a[i]) = tolower(b[i])
  /\ ~(k >= 1 /\ isdigit(b[k]) /\ isdigit(b[k + 1]))

\* C25: at the first position outside digit runs where neither string has
\* ended and the two case-folded bytes differ, if exactly one of the bytes
\* is '.', the string holding the '.' is ordered first, even against a byte
\* whose code is below '.', such as a space; compare("a.b","a 1.b") < 0 and
\* compare("foo.bar","foo 1.bar") < 0.
C25_DotFirst ==
  Done("BLI_strcasecmp_natural") =>
    /\ \A k \in 0..Len(s1) :
         /\ (DotAgainstOther(s1, s2, k) => ret.ret < 0)
         /\ (DotAgainstOther(s2, s1, k) => ret.ret > 0)
    /\ (ret.exit = "char" =>
          /\ (Rd(s1, env, ret.d1) = DOT => ret.ret < 0)
          /\ (Rd(s2, env, ret.d2) = DOT => ret.ret > 0))
    /\ (s1 = a_dot_b /\ s2 = a_1_dot_b => ret.ret < 0)
    /\ (s1 = foo_dot_bar /\ s2 = foo_1_dot_bar => ret.ret < 0)

\* "a.b" has been compared with "a 1.b": '.' against ' '
C25_Witness ==
  /\ Done("BLI_strcasecmp_natural")
  /\ s1 = a_dot_b
  /\ s2 = a_1_dot_b
  /\ DotAgainstOther(s1, s2, 1)
  /\ ret.exit = "char"
  /\ ret.ret < 0

\* the 1-based indexes at which a maximal digit run of s starts
RunStartsOf(s) ==
  {k \in 1..Len(s) : isdigit(s[k]) /\ (k = 1 \/ ~isdigit(s[k - 1]))}

\* s[i] is a leading zero of its digit run
LeadingZero(s, i) ==
  /\ s[i] = 48
  /\ \E k \in 1..i : (k = 1 \/ ~isdigit(s[k - 1])) /\ \A m \in k..i : s[m] = 48

RECURSIVE NormalFrom(_, _)
\* s from index i on, ignoring case and leading zeros: every digit run is
\* marked by a '#', its leading zeros are dropped, letters are folded
NormalFrom(s, i) ==
  IF i > Len(s) THEN <<>>
  ELSE (IF isdigit(s[i]) /\ (i = 1 \/ ~isdigit(s[i - 1])) THEN <<35>> ELSE <<>>) \o
       (IF LeadingZero(s, i) THEN <<>> ELSE <<tolower(s[i])>>) \o
       NormalFrom(s, i + 1)

\* the number of leading zeros of the n-th digit run of s
ZerosOfRun(s, n) ==
  LET k == CHOOSE j \in RunStartsOf(s) : Cardinality({m \in RunStartsOf(s) : m < j}) = n - 1
  IN Cardinality({i \in k..Len(s) : \A m \in k..i : s[m] = 48})

\* the digit-run pairs of a and b with different leading-zero counts
ZeroPairs(a, b) ==
  {n \in 1..Cardinality(RunStartsOf(a)) : ZerosOfRun(a, n) # ZerosOfRun(b, n)}

\* C26: the leading-zero tie-breaker is single-shot: when two strings are
\* equal in every segment, ignoring ASCII case and leading zeros, and have
\* digit-run pairs with different leading-zero counts, the sign of the
\* result is the one given by the FIRST such pair (the string with fewer
\* zeros there comes first); no later pair changes it.
C26_TiebreakerOnce ==
  Done("BLI_strcasecmp_natural") /\ NormalFrom(s1, 1) = NormalFrom(s2, 1)
                                 /\ ZeroPairs(s1, s2) # {} =>
    LET n == CHOOSE i \in ZeroPairs(s1, s2) : \A j \in ZeroPairs(s1, s2) : i <= j
    IN /\ Sign(ret.ret) = Sign(ZerosOfRun(s1, n) - ZerosOfRun(s2, n))
       /\ ret.tiebreaker = Sign(ZerosOfRun(s1, n) - ZerosOfRun(s2, n))

\* "1.01" has been compared with "01.1": the second pair of digit runs
\* would give the opposite sign
C26_Witness ==
  /\ Done("BLI_strcasecmp_natural")
  /\ s1 = <<49, DOT, 48, 49>>
  /\ s2 = <<48, 49, DOT, 49>>
  /\ NormalFrom(s1, 1) = NormalFrom(s2, 1)
  /\ ZeroPairs(s1, s2) = {1, 2}
  /\ ret.ret < 0

\* C28: for every unsigned 64-bit value, BLI_str_format_uint64_grouped
\* writes at most 16 bytes into dst, the size declared for it, terminator
\* included, and its source buffer of 27 bytes is never exceeded.
C28_Uint64GroupedBounded ==
  Done("BLI_str_format_uint64_grouped") =>
    /\ DOMAIN ret.dst \subseteq 0..15
    /\ ret.len <= 15
    /\ ret.src_used <= 27

\* C29: for every capacity c >= 1 and every source s, the output of
\* BLI_str_escape never ends in a backslash that lacks its second byte (its
\* trailing run of backslashes has an even length, and it is as long as the
\* escape of the source bytes used), and unescaping the output yields a
\* prefix of s: the source bytes used.
C29_EscapeBoundarySafe ==
  Done("BLI_str_escape") =>
    LET out == CStr(ret.dst)
        un == BLI_str_unescape(out, env, 0, Len(out) + 1)
    IN /\ BackslashRun(out, Len(out)) % 2 = 0
       /\ Len(out) = ret.used + Cardinality({i \in 1..ret.used : EscapeCode(s1[i]) # NUL})
       /\ CStr(un.dst) = Take(s1, ret.used)
       /\ ret.used <= Len(s1)
       /\ un.used = Len(out)

\* the copy has stopped before a backslash whose pair had room for one byte
\* only
C29_Witness ==
  /\ Done("BLI_str_escape")
  /\ s1 = <<116, BSLASH, 116>>
  /\ n1 = 2
  /\ CStr(ret.dst) = <<116>>
  /\ ret.used = 1

\* C30: for every string of length n, every delimiter and every words_max,
\* the count BLI_string_find_split_words(str, n, delim, words_max) returns is
\* at most BLI_string_max_possible_word_count(n) = n/2 + 1, so that with
\* words_max set to it no entry of an array of that many entries is
\* overrun, and no word of the string is left out.
C30_WordCountBound ==
  Done("BLI_string_find_split_words") /\ n1.len = Len(s1) =>
    LET count == BLI_string_max_possible_word_count(Len(s1))
    IN /\ ret.n <= count
       /\ Cardinality(Runs(s1, ch)) <= count
       /\ count = (Len(s1) \div 2) + 1
       /\ (n1.words_max = count =>
             /\ DOMAIN ret.r_words \subseteq (0..(count - 1)) \X {0, 1}
             /\ ret.n = Cardinality(Runs(s1, ch)))

\* "a b" has been split into an array of 3/2 + 1 = 2 entries, and fills it
C30_Witness ==
  /\ Done("BLI_string_find_split_words")
  /\ s1 = <<97, SPACE, 98>>
  /\ ch = SPACE
  /\ n1 = [len |-> 3, words_max |-> BLI_string_max_possible_word_count(3)]
  /\ ret.n = 2
  /\ DOMAIN ret.r_words = (0..1) \X {0, 1}

====
